---- MODULE Spec2Model ----
(***************************************************************************)
(* The RAG orchestration pipeline of the Field Cognitive Assistant:        *)
(* search gateway -> context budgeting -> generation gateway, in blocking  *)
(* (rag_answer) and streaming (rag_answer_stream) mode.                    *)
(*                                                                         *)
(* Python str values are kept in run-length form: a sequence of            *)
(* <<symbol, count>> runs with positive counts and distinct adjacent       *)
(* symbols.  A symbol is one character of document text, or one fixed      *)
(* phrase of a message the code builds (written in ASCII).  Slicing,       *)
(* concatenation, len, strip and lower are computed on that form.          *)
(* Scores are in hundredths, temperatures in tenths.                       *)
(***************************************************************************)
EXTENDS Integers, Sequences, FiniteSets, TLC

\* ------------------------------------------------------------------ bounds
MaxDocs == 4
MaxBudgetDocs == 4
MaxStream == 2
MaxPairStream == 1
MaxQuestions == 2

\* ------------------------------------------------------- program constants
MAX_CHARS_PER_CHUNK == 4000
MAX_TOTAL_CONTEXT == 12000
NEUTRAL_TEMPERATURE == 10
MAX_COMPLETION_TOKENS == 800
SCORE_SAMPLE == 3

\* ----------------------------------------------------------------- strings
Rep(c, n) == IF n <= 0 THEN <<>> ELSE << <<c, n>> >>

\* s + t
Cat(s, t) ==
    IF s = <<>> THEN t
    ELSE IF t = <<>> THEN s
    ELSE IF s[Len(s)][1] = t[1][1]
         THEN SubSeq(s, 1, Len(s) - 1)
                \o << <<t[1][1], s[Len(s)][2] + t[1][2]>> >>
                \o Tail(t)
         ELSE s \o t

RECURSIVE Lit(_)
\* the str spelled by a sequence of symbols
Lit(syms) == IF syms = <<>> THEN <<>> ELSE Cat(Rep(syms[1], 1), Lit(Tail(syms)))

RECURSIVE StrLen(_)
\* len(s)
StrLen(s) == IF s = <<>> THEN 0 ELSE s[1][2] + StrLen(Tail(s))

RECURSIVE Prefix(_, _)
\* s[:n], n >= 0
Prefix(s, n) ==
    IF n <= 0 \/ s = <<>> THEN <<>>
    ELSE IF s[1][2] <= n THEN <<s[1]>> \o Prefix(Tail(s), n - s[1][2])
    ELSE << <<s[1][1], n>> >>

RECURSIVE DropChars(_, _)
\* s[k:], k >= 0
DropChars(s, k) ==
    IF k <= 0 \/ s = <<>> THEN s
    ELSE IF s[1][2] <= k THEN DropChars(Tail(s), k - s[1][2])
    ELSE << <<s[1][1], s[1][2] - k>> >> \o Tail(s)

\* s[-n:], n > 0
Suffix(s, n) == DropChars(s, StrLen(s) - n)

\* needle in s, for a needle that is one symbol
Contains(s, needle) == \E i \in DOMAIN s : s[i][1] = needle

\* str.lower() of one symbol: the symbols with upper-case letters that the
\* code's searches can meet; every other symbol holds none of the needles
LowerSym(c) ==
    CASE c = "Rate Limit" -> "rate limit"
      [] c = "RateLimitReached" -> "ratelimitreached"
      [] c = "Unsupported" -> "unsupported"
      [] c = "Temperature" -> "temperature"
      [] c = "Espera 60 segundos antes de intentar de nuevo"
           -> "espera 60 segundos antes de intentar de nuevo"
      [] OTHER -> c

RECURSIVE Lower(_)
\* s.lower()
Lower(s) == IF s = <<>> THEN <<>>
            ELSE Cat(Rep(LowerSym(s[1][1]), s[1][2]), Lower(Tail(s)))

Whitespace == {" ", "\n\n"}

RECURSIVE LStrip(_)
LStrip(s) == IF s # <<>> /\ s[1][1] \in Whitespace THEN LStrip(Tail(s)) ELSE s

RECURSIVE RStrip(_)
RStrip(s) == IF s # <<>> /\ s[Len(s)][1] \in Whitespace
             THEN RStrip(SubSeq(s, 1, Len(s) - 1)) ELSE s

\* s.strip()
Strip(s) == RStrip(LStrip(s))

RECURSIVE Join(_)
\* "".join(chunks)
Join(chunks) == IF chunks = <<>> THEN <<>> ELSE Cat(chunks[1], Join(Tail(chunks)))

RECURSIVE SumLen(_)
SumLen(chunks) == IF chunks = <<>> THEN 0 ELSE StrLen(chunks[1]) + SumLen(Tail(chunks))

\* d.get(k, default)
Get(d, k, default) == IF k \in DOMAIN d THEN d[k] ELSE default

\* the markers of rag_pipeline.py lines 94 and 103
TRUNC_MARKER ==
    Lit(<<".", ".", ".", " ", "[", "t", "e", "x", "t", "o", " ", "t", "r", "u",
          "n", "c", "a", "d", "o", "]", " ", ".", ".", ".">>)
TRUNC_MARKER_END ==
    Lit(<<".", ".", ".", " ", "[", "t", "e", "x", "t", "o", " ", "t", "r", "u",
          "n", "c", "a", "d", "o", "]">>)

\* ------------------------------------------------- search backend (inputs)
ContentShort == Lit(<<"a", "b">>)
ContentCap == Rep("a", MAX_CHARS_PER_CHUNK)
ContentOver == Cat(Rep("a", MAX_CHARS_PER_CHUNK \div 2),
                   Cat(Rep("b", 1), Rep("c", MAX_CHARS_PER_CHUNK \div 2)))
ContentLong == Cat(Rep("a", 6000), Rep("b", 4000))
ContentHuge == Cat(Rep("a", 15000), Rep("b", 5000))

\* raw hits of the index; a hit may lack any of its fields
HitEmpty == ("metadata_storage_name" :> "empty.pdf") @@ ("@search.score" :> 300)
HitBlank == ("content" :> <<>>) @@ ("metadata_storage_path" :> "/blank")
HitShort == ("content" :> ContentShort) @@ ("metadata_storage_path" :> "/short")
HitCap == ("content" :> ContentCap) @@ ("metadata_storage_name" :> "cap.pdf")
            @@ ("metadata_storage_path" :> "/cap") @@ ("@search.score" :> 250)
HitOver == ("content" :> ContentOver) @@ ("metadata_storage_name" :> "over.pdf")
            @@ ("@search.score" :> 120)
HitLong == ("content" :> ContentLong) @@ ("metadata_storage_name" :> "long.pdf")
            @@ ("metadata_storage_path" :> "/long") @@ ("@search.score" :> 75)
HitHuge == ("content" :> ContentHuge) @@ ("metadata_storage_name" :> "huge.pdf")
            @@ ("@search.score" :> 50)

HitPool == {HitEmpty, HitBlank, HitLong}
BudgetHitPool == {HitEmpty, HitShort, HitCap, HitOver, HitLong, HitHuge}

HitLists(pool, n) == UNION {[1..k -> pool] : k \in 0..n}

SearchFaults == {Lit(<<"connection refused">>), Lit(<<"Rate Limit", " of the search service">>)}

\* what one call of the index can do: deliver hits, then possibly fail
SearchOutcomes(pool, n) ==
    {[hits |-> h, fault |-> f] :
        h \in HitLists(pool, n), f \in {<<>>} \cup {<<e>> : e \in SearchFaults}}

Questions == {Lit(<<"como calibro el sensor?">>)}
Temperatures == {3, NEUTRAL_TEMPERATURE}
Modes == {"blocking", "stream"}

\* ---------------------------------------------------------- search gateway
\* one result row -> document
NormalizeHit(result) ==
    ("content" :> Get(result, "content", <<>>))
    @@ ("source" :> Get(result, "metadata_storage_name", "Unknown"))
    @@ ("path" :> Get(result, "metadata_storage_path", ""))
    @@ ("score" :> Get(result, "@search.score", 0))

\* a search that hands back the documents built before the index failed
SearchDocumentsPartial(outcome) ==
    [kind |-> "return",
     value |-> [i \in DOMAIN outcome.hits |-> NormalizeHit(outcome.hits[i])]]

\* AzureSearchClient.search_documents: the documents, or the wrapped error
SearchDocuments(outcome) ==
    IF outcome.fault = <<>>
    THEN [kind |-> "return",
          value |-> [i \in DOMAIN outcome.hits |-> NormalizeHit(outcome.hits[i])]]
    ELSE [kind |-> "raise",
          error |-> Cat(Lit(<<"Error al buscar en Azure AI Search: ">>), outcome.fault[1])]

\* ------------------------------------------------ orchestrator: messages
SYSTEM_PROMPT == Lit(<<"Eres un asistente especializado para field engineers de dispositivos biomedicos. ...">>)

NoResultsAnswer ==
    Lit(<<"No se encontro informacion relevante en los manuales para responder tu pregunta. Por favor, intenta reformularla o usar terminos mas especificos.">>)
\* a no-results chunk whose wording drifted from the blocking one
NoResultsChunkReworded ==
    Lit(<<"No se encontro informacion relevante en los manuales.">>)
NoResultsChunk ==
    Lit(<<"No se encontro informacion relevante en los manuales para responder tu pregunta. Por favor, intenta reformularla o usar terminos mas especificos.">>)

RECURSIVE ListRepr(_)
\* the elements of a Python list of numbers, as printed
ListRepr(xs) ==
    IF xs = <<>> THEN <<>>
    ELSE IF Len(xs) = 1 THEN Lit(<<ToString(xs[1])>>)
    ELSE Cat(Lit(<<ToString(xs[1]), ", ">>), ListRepr(Tail(xs)))

\* the slice forgotten
FirstNAll(xs, n) == xs

\* search_results[:n]
FirstN(xs, n) == SubSeq(xs, 1, IF Len(xs) < n THEN Len(xs) ELSE n)

\* rag_answer, "if not context_chunks"
NoContextAnswer(search_results) ==
    LET scores == [i \in DOMAIN FirstN(search_results, SCORE_SAMPLE) |->
                      Get(search_results[i], "score", 0)]
        debug_info ==
            Cat(Lit(<<"Se encontraron ", ToString(Len(search_results)),
                      " documentos pero no contenian texto util.">>),
                IF search_results # <<>>
                THEN Cat(Lit(<<" Scores: ", "[">>), Cat(ListRepr(scores), Lit(<<"]">>)))
                ELSE <<>>)
    IN Cat(debug_info,
           Lit(<<" Por favor, intenta otra pregunta o reformula con terminos mas especificos.">>))

\* rag_answer_stream, "if not context_chunks"
NoContextChunk(search_results) ==
    LET scores == [i \in DOMAIN FirstN(search_results, SCORE_SAMPLE) |->
                      Get(search_results[i], "score", 0)]
        debug_info ==
            Cat(Lit(<<"Se encontraron ", ToString(Len(search_results)),
                      " documentos pero no contenian texto util.">>),
                IF search_results # <<>>
                THEN Cat(Lit(<<" Scores: ", "[">>), Cat(ListRepr(scores), Lit(<<"]">>)))
                ELSE <<>>)
    IN Cat(debug_info,
           Lit(<<" Por favor, intenta otra pregunta o reformula con terminos mas especificos.">>))

\* a handler that lets every fault but a rate limit escape
RagAnswerExceptReraise(error_message) ==
    IF Contains(error_message, "Limite de tasa alcanzado")
       \/ Contains(Lower(error_message), "rate limit")
    THEN [kind |-> "return",
          answer |-> Cat(Lit(<<":warning: **", "Limite de tasa alcanzado", "**", "\n\n">>),
                         Cat(error_message,
                             Lit(<<"\n\n", "Por favor, espera un momento antes de hacer otra pregunta.">>))),
          sources |-> <<>>]
    ELSE [kind |-> "raise"]

\* rag_answer, "except Exception as e"
RagAnswerExcept(error_message) ==
    IF Contains(error_message, "Limite de tasa alcanzado")
       \/ Contains(Lower(error_message), "rate limit")
    THEN [kind |-> "return",
          answer |-> Cat(Lit(<<":warning: **", "Limite de tasa alcanzado", "**", "\n\n">>),
                         Cat(error_message,
                             Lit(<<"\n\n", "Por favor, espera un momento antes de hacer otra pregunta.">>))),
          sources |-> <<>>]
    ELSE [kind |-> "return",
          answer |-> Cat(Lit(<<":x: **Error al procesar tu pregunta**", "\n\n">>),
                         Cat(error_message,
                             Lit(<<"\n\n", "Por favor, intenta de nuevo o verifica tu configuracion de Azure.">>))),
          sources |-> <<>>]

\* rag_answer_stream, "except Exception as e"
RagAnswerStreamExcept(error_message) ==
    IF Contains(error_message, "Limite de tasa alcanzado")
       \/ Contains(Lower(error_message), "rate limit")
    THEN [kind |-> "yield",
          chunk |-> Cat(Lit(<<":warning: **", "Limite de tasa alcanzado", "**", "\n\n">>),
                        Cat(error_message,
                            Lit(<<"\n\n", "Por favor, espera un momento antes de hacer otra pregunta.">>))),
          sources |-> <<>>]
    ELSE [kind |-> "yield",
          chunk |-> Cat(Lit(<<":x: **Error al procesar tu pregunta**", "\n\n">>),
                        Cat(error_message,
                            Lit(<<"\n\n", "Por favor, intenta de nuevo o verifica tu configuracion de Azure.">>))),
          sources |-> <<>>]

\* ------------------------------------------------- orchestrator: budgeting
\* no truncation of a single content
TruncateChunkNone(content) == content

\* truncation that keeps the head only
TruncateChunkHeadOnly(content) ==
    IF StrLen(content) > MAX_CHARS_PER_CHUNK
    THEN Cat(Prefix(content, MAX_CHARS_PER_CHUNK), TRUNC_MARKER)
    ELSE content

\* rag_answer: middle truncation of one content
TruncateChunk(content) ==
    IF StrLen(content) > MAX_CHARS_PER_CHUNK
    THEN LET half == MAX_CHARS_PER_CHUNK \div 2
         IN Cat(Cat(Prefix(content, half), TRUNC_MARKER), Suffix(content, half))
    ELSE content

\* the cap tested against the fragment alone, the running total forgotten
BudgetBodyNoTotal(doc, chunks, total) ==
    LET raw == Get(doc, "content", <<>>) IN
    IF raw = <<>>
    THEN [context_chunks |-> chunks, total_chars |-> total, stop |-> FALSE]
    ELSE LET content == TruncateChunk(raw)
             chunk_size == StrLen(content)
         IN IF chunk_size > MAX_TOTAL_CONTEXT
            THEN IF chunks # <<>>
                 THEN [context_chunks |-> chunks, total_chars |-> total, stop |-> TRUE]
                 ELSE [context_chunks |->
                           Append(chunks, Cat(Prefix(content, MAX_TOTAL_CONTEXT), TRUNC_MARKER_END)),
                       total_chars |-> total, stop |-> TRUE]
            ELSE [context_chunks |-> Append(chunks, content),
                  total_chars |-> total + chunk_size, stop |-> FALSE]

\* "break" in place of "continue" on a document without text
BudgetBodyBreakOnEmpty(doc, chunks, total) ==
    LET raw == Get(doc, "content", <<>>) IN
    IF raw = <<>>
    THEN [context_chunks |-> chunks, total_chars |-> total, stop |-> TRUE]
    ELSE LET content == TruncateChunk(raw)
             chunk_size == StrLen(content)
         IN IF total + chunk_size > MAX_TOTAL_CONTEXT
            THEN IF chunks # <<>>
                 THEN [context_chunks |-> chunks, total_chars |-> total, stop |-> TRUE]
                 ELSE [context_chunks |->
                           Append(chunks, Cat(Prefix(content, MAX_TOTAL_CONTEXT), TRUNC_MARKER_END)),
                       total_chars |-> total, stop |-> TRUE]
            ELSE [context_chunks |-> Append(chunks, content),
                  total_chars |-> total + chunk_size, stop |-> FALSE]

\* "continue" in place of "break" on a fragment over the budget
BudgetBodySkipOversize(doc, chunks, total) ==
    LET raw == Get(doc, "content", <<>>) IN
    IF raw = <<>>
    THEN [context_chunks |-> chunks, total_chars |-> total, stop |-> FALSE]
    ELSE LET content == TruncateChunk(raw)
             chunk_size == StrLen(content)
         IN IF total + chunk_size > MAX_TOTAL_CONTEXT
            THEN IF chunks # <<>>
                 THEN [context_chunks |-> chunks, total_chars |-> total, stop |-> FALSE]
                 ELSE [context_chunks |->
                           Append(chunks, Cat(Prefix(content, MAX_TOTAL_CONTEXT), TRUNC_MARKER_END)),
                       total_chars |-> total, stop |-> TRUE]
            ELSE [context_chunks |-> Append(chunks, content),
                  total_chars |-> total + chunk_size, stop |-> FALSE]

\* rag_answer: one iteration of "for doc in search_results"
BudgetBody(doc, chunks, total) ==
    LET raw == Get(doc, "content", <<>>) IN
    IF raw = <<>>
    THEN [context_chunks |-> chunks, total_chars |-> total, stop |-> FALSE]
    ELSE LET content == TruncateChunk(raw)
             chunk_size == StrLen(content)
         IN IF total + chunk_size > MAX_TOTAL_CONTEXT
            THEN IF chunks # <<>>
                 THEN [context_chunks |-> chunks, total_chars |-> total, stop |-> TRUE]
                 ELSE [context_chunks |->
                           Append(chunks, Cat(Prefix(content, MAX_TOTAL_CONTEXT), TRUNC_MARKER_END)),
                       total_chars |-> total, stop |-> TRUE]
            ELSE [context_chunks |-> Append(chunks, content),
                  total_chars |-> total + chunk_size, stop |-> FALSE]

\* rag_answer_stream: middle truncation of one content
TruncateChunkStream(content) ==
    IF StrLen(content) > MAX_CHARS_PER_CHUNK
    THEN LET half == MAX_CHARS_PER_CHUNK \div 2
         IN Cat(Cat(Prefix(content, half), TRUNC_MARKER), Suffix(content, half))
    ELSE content

\* rag_answer_stream: one iteration of "for doc in search_results"
BudgetBodyStream(doc, chunks, total) ==
    LET raw == Get(doc, "content", <<>>) IN
    IF raw = <<>>
    THEN [context_chunks |-> chunks, total_chars |-> total, stop |-> FALSE]
    ELSE LET content == TruncateChunkStream(raw)
             chunk_size == StrLen(content)
         IN IF total + chunk_size > MAX_TOTAL_CONTEXT
            THEN IF chunks # <<>>
                 THEN [context_chunks |-> chunks, total_chars |-> total, stop |-> TRUE]
                 ELSE [context_chunks |->
                           Append(chunks, Cat(Prefix(content, MAX_TOTAL_CONTEXT), TRUNC_MARKER_END)),
                       total_chars |-> total, stop |-> TRUE]
            ELSE [context_chunks |-> Append(chunks, content),
                  total_chars |-> total + chunk_size, stop |-> FALSE]

\* --------------------------------------------------- orchestrator: sources
\* rag_answer: one source_info
SourceInfo(doc) ==
    LET source_info == ("source" :> Get(doc, "source", "Unknown"))
                       @@ ("score" :> Get(doc, "score", 0))
    IN IF "path" \in DOMAIN doc THEN source_info @@ ("path" :> doc["path"])
       ELSE source_info

\* sources built from the documents that carry text only
BuildSourcesOfUsed(search_results) ==
    LET used == SelectSeq(search_results, LAMBDA d : Get(d, "content", <<>>) # <<>>)
    IN [i \in DOMAIN used |-> SourceInfo(used[i])]

\* rag_answer: "for doc in search_results: ... sources.append(source_info)"
BuildSources(search_results) ==
    [i \in DOMAIN search_results |-> SourceInfo(search_results[i])]

\* rag_answer_stream: one source_info
SourceInfoStream(doc) ==
    LET source_info == ("source" :> Get(doc, "source", "Unknown"))
                       @@ ("score" :> Get(doc, "score", 0))
    IN IF "path" \in DOMAIN doc THEN source_info @@ ("path" :> doc["path"])
       ELSE source_info

\* rag_answer_stream: "for doc in search_results: ... sources.append(source_info)"
BuildSourcesStream(search_results) ==
    [i \in DOMAIN search_results |-> SourceInfoStream(search_results[i])]

\* --------------------------------------------- generation backend (inputs)
GenFaults ==
    {Lit(<<"Error code: ", "429", " - quota exceeded">>),
     Lit(<<"Rate Limit", " reached, retry later">>),
     Lit(<<"RateLimitReached", ": requests exceeded">>),
     Lit(<<"Error code: ", "429", " - see error ", "400", " in the docs">>),
     Lit(<<"Error code: ", "400", " - invalid request">>),
     Lit(<<"connection reset">>),
     Lit(<<"Error code: ", "400", " - ", "Unsupported", " value: ", "temperature">>)}

Deltas == {Lit(<<"a">>), Lit(<<" ">>)}

RECURSIVE TextsUpTo(_)
\* the texts the backend can emit in at most n deltas
TextsUpTo(n) ==
    IF n = 0 THEN {<<>>}
    ELSE LET shorter == TextsUpTo(n - 1)
         IN shorter \cup {Cat(t, d) : t \in shorter, d \in Deltas}

\* a completion: no choice, or one choice whose message content is a str or None
\* (an option is <<>> for None, <<v>> for a value)
Responses ==
    {[choices |-> <<>>], [choices |-> <<[content |-> <<>>]>>]}
    \cup {[choices |-> <<[content |-> <<t>>]>>] : t \in TextsUpTo(MaxStream)}

\* what one create() of a blocking completion can do
CreateOutcomes ==
    {[ok |-> TRUE, response |-> r] : r \in Responses}
    \cup {[ok |-> FALSE, error |-> e] : e \in GenFaults}

\* what one create() of a streamed completion can do
StreamCreateOutcomes ==
    {[ok |-> TRUE]} \cup {[ok |-> FALSE, error |-> e] : e \in GenFaults}

\* one item of the backend stream: no choice, or a delta with content None or a str
StreamEvents ==
    {[choices |-> <<>>], [choices |-> <<[content |-> <<>>]>>]}
    \cup {[choices |-> <<[content |-> <<d>>]>>] : d \in Deltas}

DEPLOYMENT_NAME == "deployment"

\* ------------------------------------------- generation gateway: blocking
RECURSIVE ContextText(_, _)
\* "\n\n".join(f"[Fragmento {i+1}]\n{chunk}" ...), from the i-th chunk on
ContextText(context_chunks, i) ==
    IF i > Len(context_chunks) THEN <<>>
    ELSE Cat(Cat(Lit(<<"[Fragmento ", ToString(i), "]", "\n">>), context_chunks[i]),
             IF i < Len(context_chunks)
             THEN Cat(Lit(<<"\n\n">>), ContextText(context_chunks, i + 1))
             ELSE <<>>)

\* generate_response: the chat messages
BuildMessages(system_prompt, user_message, context_chunks) ==
    LET context_text == ContextText(context_chunks, 1)
        user_prompt_with_context ==
            Cat(Lit(<<"Contexto de los manuales tecnicos:", "\n\n">>),
            Cat(context_text,
            Cat(Lit(<<"\n\n", "---", "\n\n", "Pregunta del usuario: ">>),
            Cat(user_message,
                Lit(<<"\n\n", "Basandote en el contexto proporcionado, responde la pregunta del usuario. ...">>)))))
    IN << [role |-> "system", content |-> system_prompt],
          [role |-> "user", content |-> user_prompt_with_context] >>

\* call_params with the temperature whatever its value
CallParamsAlwaysTemperature(messages, temperature) ==
    ("model" :> DEPLOYMENT_NAME) @@ ("messages" :> messages)
    @@ ("max_completion_tokens" :> MAX_COMPLETION_TOKENS)
    @@ ("temperature" :> temperature)

\* generate_response: call_params
CallParams(messages, temperature) ==
    LET call_params == ("model" :> DEPLOYMENT_NAME) @@ ("messages" :> messages)
                       @@ ("max_completion_tokens" :> MAX_COMPLETION_TOKENS)
    IN IF temperature # NEUTRAL_TEMPERATURE
       THEN call_params @@ ("temperature" :> temperature)
       ELSE call_params

\* a retry that sends the same parameters again
PopTemperatureKeep(call_params) == call_params

\* call_params.pop("temperature", None)
PopTemperature(call_params) ==
    [k \in DOMAIN call_params \ {"temperature"} |-> call_params[k]]

\* a test that also sends a rate-limited request again
IsTemperatureUnsupportedOr429(error_str) ==
    \/ Contains(Lower(error_str), "temperature") /\ Contains(Lower(error_str), "unsupported")
    \/ Contains(error_str, "429")

\* the test of the inner "except Exception as temp_error"
IsTemperatureUnsupported(error_str) ==
    Contains(Lower(error_str), "temperature") /\ Contains(Lower(error_str), "unsupported")

\* a classification that tests for "400" before the rate-limit signals
ClassifyErrorBadRequestFirst(error_str) ==
    IF Contains(error_str, "400")
    THEN Cat(Lit(<<"Error de solicitud: ">>), error_str)
    ELSE IF Contains(error_str, "429") \/ Contains(error_str, "RateLimitReached")
            \/ Contains(Lower(error_str), "rate limit")
    THEN Lit(<<"Limite de tasa alcanzado",
               ": Has excedido el limite de tokens por minuto de tu plan de Azure OpenAI. Por favor, ",
               "espera 60 segundos antes de intentar de nuevo",
               ". Para aumentar el limite, visita: https://aka.ms/oai/quotaincrease">>)
    ELSE Cat(Lit(<<"Error al generar respuesta con Azure OpenAI: ">>), error_str)

\* generate_response: the outer "except Exception as e"
ClassifyError(error_str) ==
    IF Contains(error_str, "429") \/ Contains(error_str, "RateLimitReached")
       \/ Contains(Lower(error_str), "rate limit")
    THEN Lit(<<"Limite de tasa alcanzado",
               ": Has excedido el limite de tokens por minuto de tu plan de Azure OpenAI. Por favor, ",
               "espera 60 segundos antes de intentar de nuevo",
               ". Para aumentar el limite, visita: https://aka.ms/oai/quotaincrease">>)
    ELSE IF Contains(error_str, "400")
    THEN Cat(Lit(<<"Error de solicitud: ">>), error_str)
    ELSE Cat(Lit(<<"Error al generar respuesta con Azure OpenAI: ">>), error_str)

\* an extraction that indexes choices[0] without testing for it
ExtractAnswerUnguarded(response) ==
    IF response.choices # <<>>
    THEN IF response.choices[1].content = <<>>
         THEN [kind |-> "raise",
               error |-> Lit(<<"'NoneType' object has no attribute 'strip'">>)]
         ELSE [kind |-> "return", value |-> Strip(response.choices[1].content[1])]
    ELSE [kind |-> "raise", error |-> Lit(<<"list index out of range">>)]

\* generate_response: "if response.choices ... return ...strip()"; a content of
\* None has no strip, which raises inside the outer try
ExtractAnswer(response) ==
    IF response.choices # <<>>
    THEN IF response.choices[1].content = <<>>
         THEN [kind |-> "raise",
               error |-> Lit(<<"'NoneType' object has no attribute 'strip'">>)]
         ELSE [kind |-> "return", value |-> Strip(response.choices[1].content[1])]
    ELSE [kind |-> "return", value |-> Lit(<<"No se pudo generar una respuesta.">>)]

\* AzureOpenAIClient.generate_response, the backend doing o1 on the first
\* create() and o2 on the second: the calls made, the errors the backend
\* raised, the completions it returned, and the text returned or the message
\* of the exception raised
GenerateResponse(system_prompt, user_message, context_chunks, temperature, o1, o2) ==
    LET call_params == CallParams(BuildMessages(system_prompt, user_message, context_chunks),
                                  temperature)
        retried == PopTemperature(call_params)
        Finish(calls, errors, o) ==
            IF o.ok
            THEN LET x == ExtractAnswer(o.response)
                 IN IF x.kind = "return"
                    THEN [calls |-> calls, errors |-> errors, responses |-> <<o.response>>,
                          kind |-> "return", value |-> x.value]
                    ELSE [calls |-> calls, errors |-> errors, responses |-> <<o.response>>,
                          kind |-> "raise", value |-> ClassifyError(x.error)]
            ELSE [calls |-> calls, errors |-> Append(errors, o.error), responses |-> <<>>,
                  kind |-> "raise", value |-> ClassifyError(o.error)]
    IN IF o1.ok THEN Finish(<<call_params>>, <<>>, o1)
       ELSE IF IsTemperatureUnsupported(o1.error)
            THEN Finish(<<call_params, retried>>, <<o1.error>>, o2)
            ELSE Finish(<<call_params>>, <<>>, o1)

\* ------------------------------------------ generation gateway: streaming
RECURSIVE ContextTextStream(_, _)
ContextTextStream(context_chunks, i) ==
    IF i > Len(context_chunks) THEN <<>>
    ELSE Cat(Cat(Lit(<<"[Fragmento ", ToString(i), "]", "\n">>), context_chunks[i]),
             IF i < Len(context_chunks)
             THEN Cat(Lit(<<"\n\n">>), ContextTextStream(context_chunks, i + 1))
             ELSE <<>>)

\* chat messages whose context comes without the fragment labels
BuildMessagesStreamUnlabelled(system_prompt, user_message, context_chunks) ==
    LET user_prompt_with_context ==
            Cat(Lit(<<"Contexto de los manuales tecnicos:", "\n\n">>),
            Cat(Join(context_chunks),
            Cat(Lit(<<"\n\n", "---", "\n\n", "Pregunta del usuario: ">>),
            Cat(user_message,
                Lit(<<"\n\n", "Basandote en el contexto proporcionado, responde la pregunta del usuario. ...">>)))))
    IN << [role |-> "system", content |-> system_prompt],
          [role |-> "user", content |-> user_prompt_with_context] >>

\* generate_response_stream: the chat messages
BuildMessagesStream(system_prompt, user_message, context_chunks) ==
    LET context_text == ContextTextStream(context_chunks, 1)
        user_prompt_with_context ==
            Cat(Lit(<<"Contexto de los manuales tecnicos:", "\n\n">>),
            Cat(context_text,
            Cat(Lit(<<"\n\n", "---", "\n\n", "Pregunta del usuario: ">>),
            Cat(user_message,
                Lit(<<"\n\n", "Basandote en el contexto proporcionado, responde la pregunta del usuario. ...">>)))))
    IN << [role |-> "system", content |-> system_prompt],
          [role |-> "user", content |-> user_prompt_with_context] >>

\* generate_response_stream: call_params
CallParamsStream(messages, temperature) ==
    LET call_params == ("model" :> DEPLOYMENT_NAME) @@ ("messages" :> messages)
                       @@ ("max_completion_tokens" :> MAX_COMPLETION_TOKENS)
                       @@ ("stream" :> TRUE)
    IN IF temperature # NEUTRAL_TEMPERATURE
       THEN call_params @@ ("temperature" :> temperature)
       ELSE call_params

\* generate_response_stream: the outer "except Exception as e", the chunk yielded
ClassifyErrorStream(error_str) ==
    IF Contains(error_str, "429") \/ Contains(error_str, "RateLimitReached")
       \/ Contains(Lower(error_str), "rate limit")
    THEN Lit(<<"\n\n", ":warning: **", "Limite de tasa alcanzado",
               "**: Has excedido el limite de tokens por minuto. ",
               "Espera 60 segundos antes de intentar de nuevo", ".">>)
    ELSE IF Contains(error_str, "400")
    THEN Cat(Lit(<<"\n\n", ":x: **Error de solicitud**: ">>), error_str)
    ELSE Cat(Lit(<<"\n\n", ":x: **Error**: ">>), error_str)

\* generate_response_stream up to the stream handle, the backend doing o1 on
\* the first create() and o2 on the second: the calls made, the errors the
\* backend raised, and the stream opened or the diagnostic chunk yielded
OpenStream(system_prompt, user_message, context_chunks, temperature, o1, o2) ==
    LET call_params ==
            CallParamsStream(BuildMessagesStream(system_prompt, user_message, context_chunks),
                             temperature)
        retried == PopTemperature(call_params)
        Finish(calls, errors, o) ==
            IF o.ok THEN [calls |-> calls, errors |-> errors, kind |-> "stream"]
            ELSE [calls |-> calls, errors |-> Append(errors, o.error), kind |-> "yield",
                  chunk |-> ClassifyErrorStream(o.error)]
    IN IF o1.ok THEN Finish(<<call_params>>, <<>>, o1)
       ELSE IF IsTemperatureUnsupported(o1.error)
            THEN Finish(<<call_params, retried>>, <<o1.error>>, o2)
            ELSE Finish(<<call_params>>, <<>>, o1)

\* generate_response_stream: one iteration of "for chunk in stream"
StreamItem(chunk) ==
    IF chunk.choices # <<>>
    THEN LET content == chunk.choices[1].content
         IN IF content # <<>> /\ content[1] # <<>>
            THEN [kind |-> "yield", chunk |-> content[1]]
            ELSE [kind |-> "skip"]
    ELSE [kind |-> "skip"]

\* the text a stream item carries, as the backend sent it
ItemText(chunk) ==
    IF chunk.choices # <<>> /\ chunk.choices[1].content # <<>>
    THEN chunk.choices[1].content[1] ELSE <<>>

\* ------------------------------------------------------------------- state
VARIABLES
    system_prompt,   \* RAGPipeline.system_prompt
    pc,              \* where each invocation stands
    mode,            \* "blocking": rag_answer, "stream": rag_answer_stream
    user_question, temperature,
    search_log,      \* how each call of search_documents_text_only ended
    index_log,       \* what the index did in each: the hits delivered, the fault
    search_results, idx, context_chunks, total_chars,
    calls,           \* call_params of every create() made
    backend_errors,  \* the messages of the errors the generation backend raised
    responses,       \* the completions create() returned to generate_response
    pulled,          \* items taken from the backend stream
    backend_text,    \* the text those items carried
    yielded,         \* chunks the consumer of rag_answer_stream received
    full_answer,
    answer, sources, \* the values returned
    outcome,         \* "pending", "returned" or "raised"
    branch,          \* the path the invocation took
    messages,        \* st.session_state.messages
    ui_pc,           \* "ready", or "consuming" inside process_question
    received,        \* the chunks process_question has added to its full_answer
    asked            \* calls of process_question so far

inputVars == <<mode, user_question, temperature>>
searchVars == <<search_log, index_log>>
budgetVars == <<search_results, idx, context_chunks, total_chars>>
genVars == <<calls, backend_errors, responses, pulled, backend_text>>
streamVars == <<yielded, full_answer>>
resultVars == <<answer, sources, outcome>>
uiVars == <<messages, ui_pc, received, asked>>
vars == <<system_prompt, pc, inputVars, searchVars, budgetVars, genVars, streamVars,
          resultVars, branch, uiVars>>

Invocations == DOMAIN pc

InitFor(n) ==
    /\ system_prompt = SYSTEM_PROMPT
    /\ pc = [p \in 1..n |-> "idle"]
    /\ mode = [p \in 1..n |-> "blocking"]
    /\ user_question = [p \in 1..n |-> <<>>]
    /\ temperature = [p \in 1..n |-> NEUTRAL_TEMPERATURE]
    /\ search_log = [p \in 1..n |-> <<>>]
    /\ index_log = [p \in 1..n |-> <<>>]
    /\ search_results = [p \in 1..n |-> <<>>]
    /\ idx = [p \in 1..n |-> 0]
    /\ context_chunks = [p \in 1..n |-> <<>>]
    /\ total_chars = [p \in 1..n |-> 0]
    /\ calls = [p \in 1..n |-> <<>>]
    /\ backend_errors = [p \in 1..n |-> <<>>]
    /\ responses = [p \in 1..n |-> <<>>]
    /\ pulled = [p \in 1..n |-> 0]
    /\ backend_text = [p \in 1..n |-> <<>>]
    /\ yielded = [p \in 1..n |-> <<>>]
    /\ full_answer = [p \in 1..n |-> <<>>]
    /\ answer = [p \in 1..n |-> <<>>]
    /\ sources = [p \in 1..n |-> <<>>]
    /\ outcome = [p \in 1..n |-> "pending"]
    /\ branch = [p \in 1..n |-> "none"]
    /\ messages = <<>>
    /\ ui_pc = "ready"
    /\ received = <<>>
    /\ asked = 0

Init == InitFor(1)

\* the caller invokes rag_answer or rag_answer_stream
Invoke(p) ==
    /\ pc[p] = "idle"
    /\ \E m \in Modes, q \in Questions, t \in Temperatures :
          /\ mode' = [mode EXCEPT ![p] = m]
          /\ user_question' = [user_question EXCEPT ![p] = q]
          /\ temperature' = [temperature EXCEPT ![p] = t]
    /\ pc' = [pc EXCEPT ![p] = "search"]
    /\ UNCHANGED <<system_prompt, searchVars, budgetVars, genVars, streamVars,
                   resultVars, branch>>

\* ------------------------------------------------------ rag_answer actions
\* "return {...}", or an exception leaving rag_answer
Return(p, r, b) ==
    /\ pc' = [pc EXCEPT ![p] = "done"]
    /\ outcome' = [outcome EXCEPT ![p] = IF r.kind = "return" THEN "returned" ELSE "raised"]
    /\ answer' = [answer EXCEPT ![p] = IF r.kind = "return" THEN r.answer ELSE @]
    /\ sources' = [sources EXCEPT ![p] = IF r.kind = "return" THEN r.sources ELSE @]
    /\ branch' = [branch EXCEPT ![p] = b]

\* steps 1 and 2: the search, and the test for no results
RagAnswer_Search(p, outcomes) ==
    /\ pc[p] = "search" /\ mode[p] = "blocking"
    /\ \E o \in outcomes :
          LET r == SearchDocuments(o) IN
          /\ search_log' = [search_log EXCEPT ![p] = Append(@, r.kind)]
          /\ index_log' = [index_log EXCEPT ![p] = Append(@, o)]
          /\ IF r.kind = "raise"
             THEN /\ Return(p, RagAnswerExcept(r.error), "SearchFailure")
                  /\ UNCHANGED budgetVars
             ELSE IF r.value = <<>>
             THEN /\ Return(p, [kind |-> "return", answer |-> NoResultsAnswer, sources |-> <<>>],
                            "NoResults")
                  /\ UNCHANGED budgetVars
             ELSE /\ search_results' = [search_results EXCEPT ![p] = r.value]
                  /\ pc' = [pc EXCEPT ![p] = "budget"]
                  /\ UNCHANGED <<idx, context_chunks, total_chars, resultVars, branch>>
    /\ UNCHANGED <<system_prompt, inputVars, genVars, streamVars>>

\* the fragment list kept on the pipeline object, one for all invocations
RagAnswer_BudgetShared(p) ==
    /\ pc[p] = "budget" /\ mode[p] = "blocking"
    /\ idx[p] < Len(search_results[p])
    /\ LET b == BudgetBody(search_results[p][idx[p] + 1], context_chunks[p], total_chars[p])
       IN /\ idx' = [idx EXCEPT ![p] = @ + 1]
          /\ context_chunks' = [q \in Invocations |-> b.context_chunks]
          /\ total_chars' = [total_chars EXCEPT ![p] = b.total_chars]
          /\ pc' = [pc EXCEPT ![p] =
                       IF b.stop \/ idx[p] + 1 = Len(search_results[p])
                       THEN "context_check" ELSE "budget"]
    /\ UNCHANGED <<system_prompt, inputVars, searchVars, search_results, genVars,
                   streamVars, resultVars, branch>>

\* the running total kept on the pipeline object, one for all invocations
RagAnswer_BudgetCarriedTotal(p) ==
    /\ pc[p] = "budget" /\ mode[p] = "blocking"
    /\ idx[p] < Len(search_results[p])
    /\ LET b == BudgetBody(search_results[p][idx[p] + 1], context_chunks[p], total_chars[p])
       IN /\ idx' = [idx EXCEPT ![p] = @ + 1]
          /\ context_chunks' = [context_chunks EXCEPT ![p] = b.context_chunks]
          /\ total_chars' = [q \in Invocations |-> b.total_chars]
          /\ pc' = [pc EXCEPT ![p] =
                       IF b.stop \/ idx[p] + 1 = Len(search_results[p])
                       THEN "context_check" ELSE "budget"]
    /\ UNCHANGED <<system_prompt, inputVars, searchVars, search_results, genVars,
                   streamVars, resultVars, branch>>

\* step 3: one iteration of the budgeting loop
RagAnswer_Budget(p) ==
    /\ pc[p] = "budget" /\ mode[p] = "blocking"
    /\ idx[p] < Len(search_results[p])
    /\ LET b == BudgetBody(search_results[p][idx[p] + 1], context_chunks[p], total_chars[p])
       IN /\ idx' = [idx EXCEPT ![p] = @ + 1]
          /\ context_chunks' = [context_chunks EXCEPT ![p] = b.context_chunks]
          /\ total_chars' = [total_chars EXCEPT ![p] = b.total_chars]
          /\ pc' = [pc EXCEPT ![p] =
                       IF b.stop \/ idx[p] + 1 = Len(search_results[p])
                       THEN "context_check" ELSE "budget"]
    /\ UNCHANGED <<system_prompt, inputVars, searchVars, search_results, genVars,
                   streamVars, resultVars, branch>>

\* the generation entered whether or not a fragment was produced
RagAnswer_CheckContextSkipped(p) ==
    /\ pc[p] = "context_check" /\ mode[p] = "blocking"
    /\ pc' = [pc EXCEPT ![p] = "generate"]
    /\ UNCHANGED <<system_prompt, inputVars, searchVars, budgetVars, genVars, streamVars,
                   resultVars, branch>>

\* "if not context_chunks"
RagAnswer_CheckContext(p) ==
    /\ pc[p] = "context_check" /\ mode[p] = "blocking"
    /\ IF context_chunks[p] = <<>>
       THEN Return(p, [kind |-> "return", answer |-> NoContextAnswer(search_results[p]),
                       sources |-> <<>>], "NoUsableContext")
       ELSE /\ pc' = [pc EXCEPT ![p] = "generate"]
            /\ UNCHANGED <<resultVars, branch>>
    /\ UNCHANGED <<system_prompt, inputVars, searchVars, budgetVars, genVars, streamVars>>

\* steps 4 and 5: the generation, the sources and the return
RagAnswer_Generate(p, outcomes) ==
    /\ pc[p] = "generate" /\ mode[p] = "blocking"
    /\ \E o1 \in outcomes, o2 \in outcomes :
          LET g == GenerateResponse(system_prompt, user_question[p], context_chunks[p],
                                    temperature[p], o1, o2)
          IN /\ calls' = [calls EXCEPT ![p] = @ \o g.calls]
             /\ backend_errors' = [backend_errors EXCEPT ![p] = @ \o g.errors]
             /\ responses' = [responses EXCEPT ![p] = @ \o g.responses]
             /\ IF g.kind = "raise"
                THEN Return(p, RagAnswerExcept(g.value), "GenerationFailure")
                ELSE Return(p, [kind |-> "return", answer |-> g.value,
                                sources |-> BuildSources(search_results[p])], "Generated")
    /\ UNCHANGED <<system_prompt, inputVars, searchVars, budgetVars, pulled, backend_text,
                   streamVars>>

\* ----------------------------------------------- rag_answer_stream actions
\* "yield <message>" followed by "return {"sources": []}": the generator is
\* left suspended at the yield; or an exception leaving the generator
YieldFinal(p, r, b) ==
    /\ branch' = [branch EXCEPT ![p] = b]
    /\ IF r.kind = "yield"
       THEN /\ yielded' = [yielded EXCEPT ![p] = Append(@, r.chunk)]
            /\ pc' = [pc EXCEPT ![p] = "final_yield"]
            /\ UNCHANGED outcome
       ELSE /\ outcome' = [outcome EXCEPT ![p] = "raised"]
            /\ pc' = [pc EXCEPT ![p] = "done"]
            /\ UNCHANGED yielded
    /\ UNCHANGED <<full_answer, answer, sources>>

\* a relay that holds text back and hands it on glued to the chunk before
RelayChunkMerged(p, chunk) ==
    /\ full_answer' = [full_answer EXCEPT ![p] = Cat(@, chunk)]
    /\ yielded' = [yielded EXCEPT ![p] =
                      IF @ = <<>> THEN <<chunk>>
                      ELSE SubSeq(@, 1, Len(@) - 1) \o <<Cat(@[Len(@)], chunk)>>]

\* "full_answer += chunk; yield chunk"
RelayChunk(p, chunk) ==
    /\ full_answer' = [full_answer EXCEPT ![p] = Cat(@, chunk)]
    /\ yielded' = [yielded EXCEPT ![p] = Append(@, chunk)]

\* step 5 and "return {"sources": sources}"
FinishStream(p) ==
    /\ sources' = [sources EXCEPT ![p] = BuildSourcesStream(search_results[p])]
    /\ outcome' = [outcome EXCEPT ![p] = "returned"]
    /\ pc' = [pc EXCEPT ![p] = "done"]

\* steps 1 and 2: the search, and the test for no results
RagAnswerStream_Search(p, outcomes) ==
    /\ pc[p] = "search" /\ mode[p] = "stream"
    /\ \E o \in outcomes :
          LET r == SearchDocuments(o) IN
          /\ search_log' = [search_log EXCEPT ![p] = Append(@, r.kind)]
          /\ index_log' = [index_log EXCEPT ![p] = Append(@, o)]
          /\ IF r.kind = "raise"
             THEN /\ YieldFinal(p, RagAnswerStreamExcept(r.error), "SearchFailure")
                  /\ UNCHANGED budgetVars
             ELSE IF r.value = <<>>
             THEN /\ YieldFinal(p, [kind |-> "yield", chunk |-> NoResultsChunk, sources |-> <<>>],
                                "NoResults")
                  /\ UNCHANGED budgetVars
             ELSE /\ search_results' = [search_results EXCEPT ![p] = r.value]
                  /\ pc' = [pc EXCEPT ![p] = "budget"]
                  /\ UNCHANGED <<idx, context_chunks, total_chars, streamVars, resultVars, branch>>
    /\ UNCHANGED <<system_prompt, inputVars, genVars>>

\* step 3: one iteration of the budgeting loop
RagAnswerStream_Budget(p) ==
    /\ pc[p] = "budget" /\ mode[p] = "stream"
    /\ idx[p] < Len(search_results[p])
    /\ LET b == BudgetBodyStream(search_results[p][idx[p] + 1], context_chunks[p],
                                 total_chars[p])
       IN /\ idx' = [idx EXCEPT ![p] = @ + 1]
          /\ context_chunks' = [context_chunks EXCEPT ![p] = b.context_chunks]
          /\ total_chars' = [total_chars EXCEPT ![p] = b.total_chars]
          /\ pc' = [pc EXCEPT ![p] =
                       IF b.stop \/ idx[p] + 1 = Len(search_results[p])
                       THEN "context_check" ELSE "budget"]
    /\ UNCHANGED <<system_prompt, inputVars, searchVars, search_results, genVars,
                   streamVars, resultVars, branch>>

\* "if not context_chunks"
RagAnswerStream_CheckContext(p) ==
    /\ pc[p] = "context_check" /\ mode[p] = "stream"
    /\ IF context_chunks[p] = <<>>
       THEN YieldFinal(p, [kind |-> "yield", chunk |-> NoContextChunk(search_results[p]),
                           sources |-> <<>>], "NoUsableContext")
       ELSE /\ pc' = [pc EXCEPT ![p] = "generate"]
            /\ UNCHANGED <<streamVars, resultVars, branch>>
    /\ UNCHANGED <<system_prompt, inputVars, searchVars, budgetVars, genVars>>

\* the consumer resumes the generator after its last message: "return {"sources": []}"
RagAnswerStream_Return(p) ==
    /\ pc[p] = "final_yield"
    /\ pc' = [pc EXCEPT ![p] = "done"]
    /\ sources' = [sources EXCEPT ![p] = <<>>]
    /\ outcome' = [outcome EXCEPT ![p] = "returned"]
    /\ UNCHANGED <<system_prompt, inputVars, searchVars, budgetVars, genVars, streamVars,
                   answer, branch>>

\* step 4, first resumption of the gateway's generator: the create() calls
RagAnswerStream_Open(p, outcomes) ==
    /\ pc[p] = "generate" /\ mode[p] = "stream"
    /\ \E o1 \in outcomes, o2 \in outcomes :
          LET g == OpenStream(system_prompt, user_question[p], context_chunks[p],
                              temperature[p], o1, o2)
          IN /\ calls' = [calls EXCEPT ![p] = @ \o g.calls]
             /\ backend_errors' = [backend_errors EXCEPT ![p] = @ \o g.errors]
             /\ IF g.kind = "stream"
                THEN /\ pc' = [pc EXCEPT ![p] = "streaming"]
                     /\ UNCHANGED <<streamVars, branch>>
                ELSE /\ RelayChunk(p, g.chunk)
                     /\ pc' = [pc EXCEPT ![p] = "gateway_diagnostic"]
                     /\ branch' = [branch EXCEPT ![p] = "GenerationFailure"]
    /\ UNCHANGED <<system_prompt, inputVars, searchVars, budgetVars, responses, pulled,
                   backend_text, resultVars>>

\* the backend stream delivers one item
RagAnswerStream_Pull(p, events, limit) ==
    /\ pc[p] = "streaming"
    /\ pulled[p] < limit
    /\ \E item \in events :
          LET r == StreamItem(item) IN
          /\ pulled' = [pulled EXCEPT ![p] = @ + 1]
          /\ backend_text' = [backend_text EXCEPT ![p] = Cat(@, ItemText(item))]
          /\ IF r.kind = "yield" THEN RelayChunk(p, r.chunk) ELSE UNCHANGED streamVars
    /\ UNCHANGED <<system_prompt, pc, inputVars, searchVars, budgetVars, calls,
                   backend_errors, responses, resultVars, branch>>

\* the backend stream ends: the gateway's generator returns, and so does the
\* orchestrator's, with the sources
RagAnswerStream_End(p) ==
    /\ pc[p] = "streaming"
    /\ FinishStream(p)
    /\ branch' = [branch EXCEPT ![p] = "Generated"]
    /\ UNCHANGED <<system_prompt, inputVars, searchVars, budgetVars, genVars, streamVars,
                   answer>>

\* the fault of the backend stream leaving both generators as an exception
RagAnswerStream_FaultRaised(p, faults) ==
    /\ pc[p] = "streaming"
    /\ \E e \in faults :
          backend_errors' = [backend_errors EXCEPT ![p] = Append(@, e)]
    /\ pc' = [pc EXCEPT ![p] = "done"]
    /\ outcome' = [outcome EXCEPT ![p] = "raised"]
    /\ branch' = [branch EXCEPT ![p] = "GenerationFailure"]
    /\ UNCHANGED <<system_prompt, inputVars, searchVars, budgetVars, calls, responses,
                   pulled, backend_text, streamVars, answer, sources>>

\* the backend stream raises: the gateway yields its diagnostic chunk
RagAnswerStream_Fault(p, faults) ==
    /\ pc[p] = "streaming"
    /\ \E e \in faults :
          /\ backend_errors' = [backend_errors EXCEPT ![p] = Append(@, e)]
          /\ RelayChunk(p, ClassifyErrorStream(e))
    /\ pc' = [pc EXCEPT ![p] = "gateway_diagnostic"]
    /\ branch' = [branch EXCEPT ![p] = "GenerationFailure"]
    /\ UNCHANGED <<system_prompt, inputVars, searchVars, budgetVars, calls, responses,
                   pulled, backend_text, resultVars>>

\* the consumer resumes after the diagnostic chunk: the gateway's generator
\* ends, and the orchestrator returns with the sources
RagAnswerStream_AfterDiagnostic(p) ==
    /\ pc[p] = "gateway_diagnostic"
    /\ FinishStream(p)
    /\ UNCHANGED <<system_prompt, inputVars, searchVars, budgetVars, genVars, streamVars,
                   answer, branch>>

\* --------------------------------------------------------- specifications
Next ==
    \/ \E p \in Invocations : Invoke(p) /\ UNCHANGED uiVars
    \/ \E p \in Invocations : RagAnswer_Search(p, SearchOutcomes(HitPool, MaxDocs)) /\ UNCHANGED uiVars
    \/ \E p \in Invocations : RagAnswer_Budget(p) /\ UNCHANGED uiVars
    \/ \E p \in Invocations : RagAnswer_CheckContext(p) /\ UNCHANGED uiVars
    \/ \E p \in Invocations : RagAnswer_Generate(p, CreateOutcomes) /\ UNCHANGED uiVars
    \/ \E p \in Invocations : RagAnswerStream_Search(p, SearchOutcomes(HitPool, MaxDocs)) /\ UNCHANGED uiVars
    \/ \E p \in Invocations : RagAnswerStream_Budget(p) /\ UNCHANGED uiVars
    \/ \E p \in Invocations : RagAnswerStream_CheckContext(p) /\ UNCHANGED uiVars
    \/ \E p \in Invocations : RagAnswerStream_Return(p) /\ UNCHANGED uiVars
    \/ \E p \in Invocations : RagAnswerStream_Open(p, StreamCreateOutcomes) /\ UNCHANGED uiVars
    \/ \E p \in Invocations : RagAnswerStream_Pull(p, StreamEvents, MaxStream) /\ UNCHANGED uiVars
    \/ \E p \in Invocations : RagAnswerStream_End(p) /\ UNCHANGED uiVars
    \/ \E p \in Invocations : RagAnswerStream_Fault(p, GenFaults) /\ UNCHANGED uiVars
    \/ \E p \in Invocations : RagAnswerStream_AfterDiagnostic(p) /\ UNCHANGED uiVars

Spec == Init /\ [][Next]_vars

\* the search and the budgeting alone, over longer result lists
NextBudget ==
    \/ \E p \in Invocations : Invoke(p) /\ UNCHANGED uiVars
    \/ \E p \in Invocations : RagAnswer_Search(p, SearchOutcomes(BudgetHitPool, MaxBudgetDocs)) /\ UNCHANGED uiVars
    \/ \E p \in Invocations : RagAnswer_Budget(p) /\ UNCHANGED uiVars
    \/ \E p \in Invocations : RagAnswer_CheckContext(p) /\ UNCHANGED uiVars
    \/ \E p \in Invocations : RagAnswerStream_Search(p, SearchOutcomes(BudgetHitPool, MaxBudgetDocs)) /\ UNCHANGED uiVars
    \/ \E p \in Invocations : RagAnswerStream_Budget(p) /\ UNCHANGED uiVars
    \/ \E p \in Invocations : RagAnswerStream_CheckContext(p) /\ UNCHANGED uiVars
    \/ \E p \in Invocations : RagAnswerStream_Return(p) /\ UNCHANGED uiVars

SpecBudget == Init /\ [][NextBudget]_vars

\* two invocations on one pipeline object, their steps interleaved; the
\* backends' behaviours are drawn from the smaller sets below
PairSearchOutcomes ==
    {[hits |-> <<>>, fault |-> <<>>],
     [hits |-> <<HitShort>>, fault |-> <<>>],
     [hits |-> <<HitBlank>>, fault |-> <<>>],
     [hits |-> <<HitEmpty, HitLong>>, fault |-> <<>>],
     [hits |-> <<HitLong>>, fault |-> <<Lit(<<"connection refused">>)>>]}

PairFaults ==
    {Lit(<<"Error code: ", "429", " - quota exceeded">>),
     Lit(<<"Error code: ", "400", " - ", "Unsupported", " value: ", "temperature">>)}

PairResponses == {[choices |-> <<[content |-> <<Lit(<<"a">>)>>]>>]}

PairCreateOutcomes ==
    {[ok |-> TRUE, response |-> r] : r \in PairResponses}
    \cup {[ok |-> FALSE, error |-> e] : e \in PairFaults}

PairStreamCreateOutcomes ==
    {[ok |-> TRUE]} \cup {[ok |-> FALSE, error |-> e] : e \in PairFaults}

PairStreamEvents == {[choices |-> <<>>], [choices |-> <<[content |-> <<Lit(<<"a">>)>>]>>]}

InitPair == InitFor(2)

NextPair ==
    \/ \E p \in Invocations : Invoke(p) /\ UNCHANGED uiVars
    \/ \E p \in Invocations : RagAnswer_Search(p, PairSearchOutcomes) /\ UNCHANGED uiVars
    \/ \E p \in Invocations : RagAnswer_Budget(p) /\ UNCHANGED uiVars
    \/ \E p \in Invocations : RagAnswer_CheckContext(p) /\ UNCHANGED uiVars
    \/ \E p \in Invocations : RagAnswer_Generate(p, PairCreateOutcomes) /\ UNCHANGED uiVars
    \/ \E p \in Invocations : RagAnswerStream_Search(p, PairSearchOutcomes) /\ UNCHANGED uiVars
    \/ \E p \in Invocations : RagAnswerStream_Budget(p) /\ UNCHANGED uiVars
    \/ \E p \in Invocations : RagAnswerStream_CheckContext(p) /\ UNCHANGED uiVars
    \/ \E p \in Invocations : RagAnswerStream_Return(p) /\ UNCHANGED uiVars
    \/ \E p \in Invocations : RagAnswerStream_Open(p, PairStreamCreateOutcomes) /\ UNCHANGED uiVars
    \/ \E p \in Invocations : RagAnswerStream_Pull(p, PairStreamEvents, MaxPairStream) /\ UNCHANGED uiVars
    \/ \E p \in Invocations : RagAnswerStream_End(p) /\ UNCHANGED uiVars
    \/ \E p \in Invocations : RagAnswerStream_Fault(p, PairFaults) /\ UNCHANGED uiVars
    \/ \E p \in Invocations : RagAnswerStream_AfterDiagnostic(p) /\ UNCHANGED uiVars

SpecPair == InitPair /\ [][NextPair]_vars

\* two invocations, the search and the budgeting alone, over result lists
\* that reach the truncation and the cap
PairBudgetOutcomes ==
    {[hits |-> <<HitCap, HitCap, HitCap, HitShort>>, fault |-> <<>>],
     [hits |-> <<HitEmpty, HitOver, HitLong, HitLong, HitShort>>, fault |-> <<>>],
     [hits |-> <<HitBlank, HitEmpty>>, fault |-> <<>>]}

NextBudgetPair ==
    \/ \E p \in Invocations : Invoke(p) /\ UNCHANGED uiVars
    \/ \E p \in Invocations : RagAnswer_Search(p, PairBudgetOutcomes) /\ UNCHANGED uiVars
    \/ \E p \in Invocations : RagAnswer_Budget(p) /\ UNCHANGED uiVars
    \/ \E p \in Invocations : RagAnswer_CheckContext(p) /\ UNCHANGED uiVars
    \/ \E p \in Invocations : RagAnswerStream_Search(p, PairBudgetOutcomes) /\ UNCHANGED uiVars
    \/ \E p \in Invocations : RagAnswerStream_Budget(p) /\ UNCHANGED uiVars
    \/ \E p \in Invocations : RagAnswerStream_CheckContext(p) /\ UNCHANGED uiVars
    \/ \E p \in Invocations : RagAnswerStream_Return(p) /\ UNCHANGED uiVars

SpecBudgetPair == InitPair /\ [][NextBudgetPair]_vars

\* ------------------------------------------------ main.py: the chat session
\* an exception raised by a call inside the try of process_question
UIFaults == {Lit(<<"render failed">>)}

UserMessage(prompt) == [role |-> "user", content |-> prompt]

AssistantMessage(content, sourceList) ==
    [role |-> "assistant", content |-> content, sources |-> sourceList]

\* the message of "except Exception as e"
ErrorMessage(e) ==
    [role |-> "assistant", content |-> Cat(Lit(<<":x: Error al procesar la pregunta: ">>), e)]

\* process_question: one source_info
SourceInfoUI(doc) ==
    LET source_info == ("source" :> Get(doc, "source", "Unknown"))
                       @@ ("score" :> Get(doc, "score", 0))
    IN IF "path" \in DOMAIN doc
       THEN source_info @@ ("path" :> doc["path"])
       ELSE source_info

\* process_question: the second search, for the sources; "except: sources = []"
LookupSources(o) ==
    LET r == SearchDocuments(o)
    IN IF r.kind = "raise" THEN <<>>
       ELSE [i \in DOMAIN r.value |-> SourceInfoUI(r.value[i])]

\* the generator object of a finished call is dropped; the next call of
\* rag_answer_stream starts from fresh locals
ResetInvocation(p) ==
    /\ pc' = [pc EXCEPT ![p] = "idle"]
    /\ mode' = [mode EXCEPT ![p] = "blocking"]
    /\ user_question' = [user_question EXCEPT ![p] = <<>>]
    /\ temperature' = [temperature EXCEPT ![p] = NEUTRAL_TEMPERATURE]
    /\ search_log' = [search_log EXCEPT ![p] = <<>>]
    /\ index_log' = [index_log EXCEPT ![p] = <<>>]
    /\ search_results' = [search_results EXCEPT ![p] = <<>>]
    /\ idx' = [idx EXCEPT ![p] = 0]
    /\ context_chunks' = [context_chunks EXCEPT ![p] = <<>>]
    /\ total_chars' = [total_chars EXCEPT ![p] = 0]
    /\ calls' = [calls EXCEPT ![p] = <<>>]
    /\ backend_errors' = [backend_errors EXCEPT ![p] = <<>>]
    /\ responses' = [responses EXCEPT ![p] = <<>>]
    /\ pulled' = [pulled EXCEPT ![p] = 0]
    /\ backend_text' = [backend_text EXCEPT ![p] = <<>>]
    /\ yielded' = [yielded EXCEPT ![p] = <<>>]
    /\ full_answer' = [full_answer EXCEPT ![p] = <<>>]
    /\ answer' = [answer EXCEPT ![p] = <<>>]
    /\ sources' = [sources EXCEPT ![p] = <<>>]
    /\ outcome' = [outcome EXCEPT ![p] = "pending"]
    /\ branch' = [branch EXCEPT ![p] = "none"]

\* process_question leaves through one of its two appends
ProcessQuestion_Append(message) ==
    /\ messages' = Append(messages, message)
    /\ ui_pc' = "ready"
    /\ received' = <<>>
    /\ ResetInvocation(1)
    /\ UNCHANGED <<system_prompt, asked>>

\* process_question, up to the creation of the generator
ProcessQuestion_Start ==
    /\ ui_pc = "ready" /\ asked < MaxQuestions
    /\ Invoke(1) /\ mode'[1] = "stream"
    /\ messages' = Append(messages, UserMessage(user_question'[1]))
    /\ ui_pc' = "consuming"
    /\ asked' = asked + 1
    /\ UNCHANGED received

\* "for chunk in stream_generator" is asking the generator for its next chunk
NextChunkRequested == ui_pc = "consuming" /\ Len(received) = Len(yielded[1])

\* variant: the exception raised while consuming leaves process_question
\* without the append of the except clause
ProcessQuestion_ConsumeEscapes ==
    /\ ui_pc = "consuming" /\ Len(received) < Len(yielded[1])
    /\ \/ /\ received' = Append(received, yielded[1][Len(received) + 1])
          /\ UNCHANGED <<system_prompt, pc, inputVars, searchVars, budgetVars, genVars,
                         streamVars, resultVars, branch, messages, ui_pc, asked>>
       \/ /\ ui_pc' = "ready"
          /\ received' = <<>>
          /\ ResetInvocation(1)
          /\ UNCHANGED <<system_prompt, asked, messages>>

\* "full_answer += chunk; answer_placeholder.markdown(full_answer)", or an
\* exception there, caught by "except Exception as e"
ProcessQuestion_Consume ==
    /\ ui_pc = "consuming" /\ Len(received) < Len(yielded[1])
    /\ \/ /\ received' = Append(received, yielded[1][Len(received) + 1])
          /\ UNCHANGED <<system_prompt, pc, inputVars, searchVars, budgetVars, genVars,
                         streamVars, resultVars, branch, messages, ui_pc, asked>>
       \/ \E e \in UIFaults : ProcessQuestion_Append(ErrorMessage(e))

\* the generator is exhausted: the search for the sources, the display, and
\* the append of the answer; an exception of the display goes to the except
ProcessQuestion_Finish(outcomes) ==
    /\ NextChunkRequested /\ pc[1] = "done"
    /\ \/ \E o \in outcomes :
             ProcessQuestion_Append(AssistantMessage(Join(received), LookupSources(o)))
       \/ \E e \in UIFaults : ProcessQuestion_Append(ErrorMessage(e))

\* the button "Limpiar conversacion", between two runs of the script
ClearConversation ==
    /\ ui_pc = "ready"
    /\ messages' = <<>>
    /\ UNCHANGED <<system_prompt, pc, inputVars, searchVars, budgetVars, genVars,
                   streamVars, resultVars, branch, ui_pc, received, asked>>

InitUI == InitFor(1)

NextUI ==
    \/ ProcessQuestion_Start
    \/ NextChunkRequested /\ RagAnswerStream_Search(1, PairSearchOutcomes) /\ UNCHANGED uiVars
    \/ NextChunkRequested /\ RagAnswerStream_Budget(1) /\ UNCHANGED uiVars
    \/ NextChunkRequested /\ RagAnswerStream_CheckContext(1) /\ UNCHANGED uiVars
    \/ NextChunkRequested /\ RagAnswerStream_Return(1) /\ UNCHANGED uiVars
    \/ NextChunkRequested /\ RagAnswerStream_Open(1, PairStreamCreateOutcomes) /\ UNCHANGED uiVars
    \/ NextChunkRequested /\ RagAnswerStream_Pull(1, PairStreamEvents, MaxPairStream)
          /\ UNCHANGED uiVars
    \/ NextChunkRequested /\ RagAnswerStream_End(1) /\ UNCHANGED uiVars
    \/ NextChunkRequested /\ RagAnswerStream_Fault(1, PairFaults) /\ UNCHANGED uiVars
    \/ NextChunkRequested /\ RagAnswerStream_AfterDiagnostic(1) /\ UNCHANGED uiVars
    \/ ProcessQuestion_Consume
    \/ ProcessQuestion_Finish(PairSearchOutcomes)
    \/ ClearConversation

SpecUI == InitUI /\ [][NextUI]_vars

\* ------------------------------------------------------------------ claims
Done(p) == pc[p] = "done"

\* the last chunk the consumer received
LastChunk(p) == yielded[p][Len(yielded[p])]

\* the rate-limit wait guidance, in either spelling
HasWaitGuidance(s) == Contains(Lower(s), "espera 60 segundos antes de intentar de nuevo")

\* the generation failed on an error of the backend whose message holds "429"
FailedOn429(p) ==
    /\ branch[p] = "GenerationFailure"
    /\ backend_errors[p] # <<>>
    /\ Contains(backend_errors[p][Len(backend_errors[p])], "429")

\* C1: when the generation backend fails with an error whose message
\* contains "429", rag_answer returns an answer holding the wait guidance and
\* sources = [], and rag_answer_stream ends with a chunk holding the wait
\* guidance and with sources = [].
C1_RateLimitEmptySources ==
    \A p \in Invocations :
        (Done(p) /\ FailedOn429(p)) =>
            /\ sources[p] = <<>>
            /\ mode[p] = "blocking" => HasWaitGuidance(answer[p])
            /\ mode[p] = "stream" => yielded[p] # <<>> /\ HasWaitGuidance(LastChunk(p))

\* C2 as amended: no invocation raises; rag_answer returns an answer and a
\* sources list; rag_answer_stream ends with a yielded chunk whenever the
\* search failed, found nothing or nothing usable, or the generation backend
\* raised; after a search failure sources = [] and no create() was made.
C2_NeverRaises ==
    \A p \in Invocations :
        /\ outcome[p] # "raised"
        /\ Done(p) => outcome[p] = "returned"
        /\ (Done(p) /\ mode[p] = "stream" /\ branch[p] # "Generated") => yielded[p] # <<>>
        /\ branch[p] = "SearchFailure" => sources[p] = <<>> /\ calls[p] = <<>>

\* C2, witness: a streaming invocation that ended after a search failure
C2_Witness ==
    \E p \in Invocations :
        Done(p) /\ mode[p] = "stream" /\ branch[p] = "SearchFailure" /\ Len(yielded[p]) = 1

\* C2 as stated: ... and rag_answer_stream always ends with a yielded final
\* chunk, whatever the backends did.
C2_AlwaysFinalChunk ==
    \A p \in Invocations :
        /\ outcome[p] # "raised"
        /\ Done(p) => outcome[p] = "returned"
        /\ (Done(p) /\ mode[p] = "stream") => yielded[p] # <<>>
        /\ branch[p] = "SearchFailure" => sources[p] = <<>> /\ calls[p] = <<>>

\* C3: for the same backend output, the concatenation of the chunks of
\* rag_answer_stream is the answer text rag_answer returns (what
\* generate_response extracts from a completion carrying that output).
C3_StreamEqualsBlocking ==
    \A p \in Invocations :
        (Done(p) /\ mode[p] = "stream" /\ branch[p] = "Generated") =>
            Join(yielded[p])
              = ExtractAnswer([choices |-> <<[content |-> <<backend_text[p]>>]>>]).value

\* the documents that carry text, in rank order
NonEmptyDocs(results) == SelectSeq(results, LAMBDA d : d["content"] # <<>>)

AllEmpty(results) == \A i \in DOMAIN results : results[i]["content"] = <<>>

\* the search of the invocation returned this many documents
SearchReturned(p) == search_log[p] # <<>> /\ search_log[p][Len(search_log[p])] = "return"

\* C4: when the generation completed, sources has one entry per document of
\* the search result, in its order, whatever the budgeting kept: the
\* document's source name and score, and its path when it has one.
C4_SourcesFromAllResults ==
    \A p \in Invocations :
        (Done(p) /\ branch[p] = "Generated") =>
            /\ Len(sources[p]) = Len(search_results[p])
            /\ \A i \in DOMAIN search_results[p] :
                  LET doc == search_results[p][i]
                      src == sources[p][i]
                  IN /\ DOMAIN src = {"source", "score"} \cup (DOMAIN doc \cap {"path"})
                     /\ src["source"] = doc["source"]
                     /\ src["score"] = doc["score"]
                     /\ "path" \in DOMAIN doc => src["path"] = doc["path"]

\* C4, witness: a completed generation whose prompt lacks a document without
\* text and a document that the budget dropped
C4_Witness ==
    \E p \in Invocations :
        /\ Done(p) /\ branch[p] = "Generated"
        /\ \E i \in DOMAIN search_results[p] : search_results[p][i]["content"] = <<>>
        /\ Len(context_chunks[p]) < Len(NonEmptyDocs(search_results[p]))

\* C5: when the search returns no document, rag_answer returns the fixed
\* no-results message with sources = [], rag_answer_stream yields that same
\* message as its only chunk with sources = [], and no create() is made.
C5_NoResults ==
    \A p \in Invocations :
        (SearchReturned(p) /\ search_results[p] = <<>>) =>
            /\ calls[p] = <<>>
            /\ sources[p] = <<>>
            /\ mode[p] = "blocking" => Done(p) /\ answer[p] = NoResultsAnswer
            /\ mode[p] = "stream" => yielded[p] = <<NoResultsAnswer>>

\* C5, witness: a streaming invocation that ended on an empty search result
C5_Witness ==
    \E p \in Invocations :
        Done(p) /\ mode[p] = "stream" /\ SearchReturned(p) /\ search_results[p] = <<>>

\* the symbols of a str
Symbols(s) == [i \in DOMAIN s |-> s[i][1]]

\* the items printed between "[" and "]" in a message
ListItems(msg) ==
    LET syms == Symbols(msg)
        lo == CHOOSE i \in DOMAIN syms : syms[i] = "["
        hi == CHOOSE i \in DOMAIN syms : syms[i] = "]"
    IN SelectSeq(SubSeq(syms, lo + 1, hi - 1), LAMBDA x : x # ", ")

\* the message of an invocation that ended without generation
FinalMessage(p) == IF mode[p] = "blocking" THEN answer[p] ELSE LastChunk(p)

\* C6: when the search returns documents that all have empty content, the
\* invocation ends on the NoUsableContext diagnostic, which states the number
\* of documents and the scores of the first three of them; sources = [] and
\* no create() is made.
C6_NoUsableContext ==
    \A p \in Invocations :
        (Done(p) /\ search_results[p] # <<>> /\ AllEmpty(search_results[p])) =>
            LET n == Len(search_results[p])
                shown == IF n < 3 THEN n ELSE 3
            IN /\ branch[p] = "NoUsableContext"
               /\ calls[p] = <<>>
               /\ sources[p] = <<>>
               /\ mode[p] = "stream" => Len(yielded[p]) = 1
               /\ Symbols(FinalMessage(p))[2] = ToString(n)
               /\ ListItems(FinalMessage(p))
                    = [i \in 1..shown |-> ToString(search_results[p][i]["score"])]

\* C6, witness: four documents without text, the fourth scored unlike the third
C6_Witness ==
    \E p \in Invocations :
        /\ Done(p) /\ Len(search_results[p]) = 4 /\ AllEmpty(search_results[p])
        /\ search_results[p][4]["score"] # search_results[p][3]["score"]

\* the budgeting loop of the invocation has ended
BudgetDone(p) == search_results[p] # <<>> /\ pc[p] \notin {"idle", "search", "budget"}

\* the fragment of the i-th document that carries text
FragmentOf(p, i) == TruncateChunk(NonEmptyDocs(search_results[p])[i]["content"])

\* C7: the fragments have a combined length of at most MAX_TOTAL_CONTEXT,
\* unless the first accepted fragment alone exceeded the cap, and then the
\* result is that one fragment: MAX_TOTAL_CONTEXT characters and the marker.
C7_TotalWithinCap ==
    \A p \in Invocations :
        \/ SumLen(context_chunks[p]) <= MAX_TOTAL_CONTEXT
        \/ /\ Len(context_chunks[p]) = 1
           /\ StrLen(context_chunks[p][1]) = MAX_TOTAL_CONTEXT + StrLen(TRUNC_MARKER_END)
           /\ DropChars(context_chunks[p][1], MAX_TOTAL_CONTEXT) = TRUNC_MARKER_END

\* C7, witness: the fragments fill the cap exactly and a document with text
\* was left out
C7_Witness ==
    \E p \in Invocations :
        /\ BudgetDone(p)
        /\ SumLen(context_chunks[p]) = MAX_TOTAL_CONTEXT
        /\ Len(context_chunks[p]) < Len(NonEmptyDocs(search_results[p]))

\* C8: a document list with at least one non-empty content yields at least
\* one fragment; the NoUsableContext path is taken only when every document
\* has empty content.
C8_AtLeastOneFragment ==
    \A p \in Invocations :
        /\ (BudgetDone(p) /\ ~AllEmpty(search_results[p])) => context_chunks[p] # <<>>
        /\ branch[p] = "NoUsableContext" => AllEmpty(search_results[p])

\* C8, witness: the first document has no text, a later one gave a fragment
C8_Witness ==
    \E p \in Invocations :
        /\ pc[p] = "generate"
        /\ search_results[p][1]["content"] = <<>>
        /\ context_chunks[p] # <<>>

\* C9: the i-th fragment comes from the i-th document with text; documents
\* without text do not stop the loop; the loop stops at the first fragment
\* that would pass MAX_TOTAL_CONTEXT, and no later document is included.
C9_PrefixOfRanking ==
    \A p \in Invocations :
        LET k == Len(context_chunks[p])
            n == Len(NonEmptyDocs(search_results[p]))
        IN /\ k <= n
           /\ \A i \in 1..k : context_chunks[p][i] = FragmentOf(p, i)
           /\ BudgetDone(p) =>
                 \/ k = n
                 \/ SumLen(context_chunks[p]) + StrLen(FragmentOf(p, k + 1)) > MAX_TOTAL_CONTEXT

\* C9, witness: the loop stopped although a later document would have fitted
C9_Witness ==
    \E p \in Invocations :
        LET k == Len(context_chunks[p])
            n == Len(NonEmptyDocs(search_results[p]))
        IN /\ BudgetDone(p) /\ k >= 1 /\ k + 1 < n
           /\ \E j \in (k + 2)..n :
                 SumLen(context_chunks[p]) + StrLen(FragmentOf(p, j)) <= MAX_TOTAL_CONTEXT

\* C10: a content longer than MAX_CHARS_PER_CHUNK becomes its first
\* MAX_CHARS_PER_CHUNK/2 characters, the marker, and its last
\* MAX_CHARS_PER_CHUNK/2 characters; a content up to MAX_CHARS_PER_CHUNK
\* is passed through unchanged.
C10_MiddleTruncation ==
    \A p \in Invocations :
        \A i \in DOMAIN context_chunks[p] :
            LET content == NonEmptyDocs(search_results[p])[i]["content"]
                chunk == context_chunks[p][i]
                half == MAX_CHARS_PER_CHUNK \div 2
            IN IF StrLen(content) > MAX_CHARS_PER_CHUNK
               THEN /\ StrLen(chunk) = half + StrLen(TRUNC_MARKER) + half
                    /\ Prefix(chunk, half) = Prefix(content, half)
                    /\ Prefix(DropChars(chunk, half), StrLen(TRUNC_MARKER)) = TRUNC_MARKER
                    /\ DropChars(chunk, half + StrLen(TRUNC_MARKER)) = Suffix(content, half)
               ELSE chunk = content

\* C10, witness: a content of 10,000 characters was truncated and a content
\* of exactly MAX_CHARS_PER_CHUNK characters was kept as it is
C10_Witness ==
    \E p \in Invocations :
        /\ Len(context_chunks[p]) = 2
        /\ NonEmptyDocs(search_results[p])[1]["content"] = ContentLong
        /\ NonEmptyDocs(search_results[p])[2]["content"] = ContentCap
        /\ StrLen(context_chunks[p][1]) = 4024
        /\ context_chunks[p][2] = ContentCap

\* the step in which invocation p enters the generation gateway and makes
\* its create() calls
CreateStep(p) == pc[p] = "generate" /\ pc'[p] # "generate"

\* the first create() carried a temperature and the backend rejected it with
\* an error naming "temperature" and "unsupported"
TemperatureRejected(p) ==
    /\ CreateStep(p)
    /\ backend_errors'[p] # <<>>
    /\ IsTemperatureUnsupported(backend_errors'[p][1])
    /\ "temperature" \in DOMAIN calls'[p][1]

\* C11: when the first create() carried a temperature and failed with an
\* error naming "temperature" as "unsupported", the gateway makes exactly one
\* more create(), with the same parameters less the temperature; if that one
\* succeeds its result is what the gateway gives (the answer of the completion,
\* or the opened stream with nothing yielded yet); only if it fails too is a
\* fault classified, the retry's; there is no third call.
C11_RetryWithoutTemperature ==
    [][\A p \in Invocations :
          TemperatureRejected(p) =>
             LET first == calls'[p][1]
                 errors == backend_errors'[p]
             IN /\ Len(calls'[p]) = 2
                /\ calls'[p][2] = [k \in DOMAIN first \ {"temperature"} |-> first[k]]
                /\ Len(errors) <= 2
                /\ Len(errors) = 1 =>
                      IF mode[p] = "blocking"
                      THEN /\ Len(responses'[p]) = 1
                           /\ outcome'[p] = "returned"
                           /\ LET x == ExtractAnswer(responses'[p][1])
                              IN x.kind = "return" =>
                                    /\ answer'[p] = x.value
                                    /\ branch'[p] = "Generated"
                      ELSE /\ pc'[p] = "streaming"
                           /\ yielded'[p] = yielded[p]
                /\ Len(errors) = 2 =>
                      /\ branch'[p] = "GenerationFailure"
                      /\ IF mode[p] = "blocking"
                         THEN answer'[p] = RagAnswerExcept(ClassifyError(errors[2])).answer
                         ELSE yielded'[p] = Append(yielded[p], ClassifyErrorStream(errors[2]))
      ]_vars

\* C11, witness: a finished invocation whose first create() carried a
\* temperature and was rejected, and whose second create(), without it, gave
\* the answer
C11_Witness ==
    \E p \in Invocations :
        /\ Done(p) /\ branch[p] = "Generated"
        /\ Len(calls[p]) = 2 /\ Len(backend_errors[p]) = 1
        /\ IsTemperatureUnsupported(backend_errors[p][1])
        /\ "temperature" \in DOMAIN calls[p][1]
        /\ "temperature" \notin DOMAIN calls[p][2]

\* the last error the generation backend raised
LastError(errors) == errors[Len(errors)]

\* C12: in streaming mode a fault of the generation backend, at create() or
\* after k chunks, is never raised to the consumer: the chunks delivered so
\* far stay as they are, one diagnostic chunk is yielded after them, and
\* after it nothing more is yielded and the generator returns.
C12_FaultBecomesLastChunk ==
    [][\A p \in Invocations :
          mode[p] = "stream" =>
             /\ outcome'[p] # "raised"
             /\ (Len(backend_errors'[p]) > Len(backend_errors[p]) /\ pc'[p] # "streaming") =>
                   /\ yielded'[p] = Append(yielded[p],
                                           ClassifyErrorStream(LastError(backend_errors'[p])))
                   /\ pc'[p] = "gateway_diagnostic"
             /\ pc[p] = "gateway_diagnostic" =>
                   /\ yielded'[p] = yielded[p]
                   /\ pc'[p] = "done" /\ outcome'[p] = "returned"
      ]_vars

\* C12, witness: the backend stream failed after two chunks had been
\* delivered; the consumer holds both, then the diagnostic, and the
\* generator has returned
C12_Witness ==
    \E p \in Invocations :
        /\ Done(p) /\ mode[p] = "stream" /\ outcome[p] = "returned"
        /\ Len(calls[p]) = 1 /\ Len(backend_errors[p]) = 1
        /\ Len(yielded[p]) = 3
        /\ yielded[p][1] \in Deltas /\ yielded[p][2] \in Deltas
        /\ yielded[p][3] = ClassifyErrorStream(backend_errors[p][1])

\* t is a substring of s, for strings spelled symbol by symbol
Infix(t, s) == \E i \in 0..(Len(s) - Len(t)) : SubSeq(s, i + 1, i + Len(t)) = t

\* the class of a backend error, as the claim words it
ErrorClass(e) ==
    IF Contains(e, "429") \/ Contains(e, "RateLimitReached") \/ Contains(Lower(e), "rate limit")
    THEN "RateLimited"
    ELSE IF Contains(e, "400") THEN "BadRequest" ELSE "Unknown"

\* the message is the bad-request one, in the blocking or the streaming wording
MarkedBadRequest(m) ==
    Contains(m, "Error de solicitud: ") \/ Contains(m, ":x: **Error de solicitud**: ")

\* an error of the generation backend has been classified and handed on
FaultSurfaced(p) ==
    /\ branch[p] = "GenerationFailure"
    /\ backend_errors[p] # <<>>
    /\ IF mode[p] = "blocking" THEN Done(p) /\ responses[p] = <<>>
       ELSE pc[p] \in {"gateway_diagnostic", "done"}

\* what the caller was given for it
SurfacedMessage(p) == IF mode[p] = "blocking" THEN answer[p] ELSE LastChunk(p)

\* C13: an error of the generation backend is classified, in both modes,
\* as RateLimited if its text holds "429", "RateLimitReached" or, in any
\* case, "rate limit", else as BadRequest if it holds "400", else as
\* Unknown; the RateLimited message carries the wait guidance, the other
\* two carry the backend's text, and only the BadRequest one is marked as a
\* request error.
C13_ErrorClassification ==
    \A p \in Invocations :
        FaultSurfaced(p) =>
            LET e == LastError(backend_errors[p])
                m == SurfacedMessage(p)
                c == ErrorClass(e)
            IN /\ c = "RateLimited" =>
                     HasWaitGuidance(m) /\ ~MarkedBadRequest(m) /\ ~Infix(e, m)
               /\ c = "BadRequest" =>
                     Infix(e, m) /\ MarkedBadRequest(m) /\ ~HasWaitGuidance(m)
               /\ c = "Unknown" =>
                     Infix(e, m) /\ ~MarkedBadRequest(m) /\ ~HasWaitGuidance(m)

\* C13, witness: an error holding both "429" and "400" was given to the
\* caller of rag_answer as a rate limit
C13_Witness ==
    \E p \in Invocations :
        /\ FaultSurfaced(p) /\ mode[p] = "blocking"
        /\ Contains(LastError(backend_errors[p]), "429")
        /\ Contains(LastError(backend_errors[p]), "400")
        /\ HasWaitGuidance(answer[p])

\* the invocation has failed: its search or its generation raised
Failed(p) == branch[p] \in {"SearchFailure", "GenerationFailure"}

\* C14: an error of create() that does not name "temperature" as
\* "unsupported" is not retried: that invocation of the gateway makes one
\* create() only, and the error goes on, classified, as the exception
\* rag_answer turns into its answer or as the diagnostic chunk of the
\* stream; after a failure the orchestrator makes no further search and no
\* further create().
C14_NoRetryOnOtherErrors ==
    [][\A p \in Invocations :
          /\ ( /\ CreateStep(p)
               /\ backend_errors'[p] # <<>>
               /\ ~(  Contains(Lower(backend_errors'[p][1]), "temperature")
                   /\ Contains(Lower(backend_errors'[p][1]), "unsupported")) ) =>
                /\ Len(calls'[p]) = 1 /\ Len(backend_errors'[p]) = 1
                /\ branch'[p] = "GenerationFailure"
                /\ IF mode[p] = "blocking"
                   THEN /\ responses'[p] = <<>>
                        /\ answer'[p] = RagAnswerExcept(ClassifyError(backend_errors'[p][1])).answer
                   ELSE yielded'[p] =
                            Append(yielded[p], ClassifyErrorStream(backend_errors'[p][1]))
          /\ Failed(p) => calls'[p] = calls[p] /\ search_log'[p] = search_log[p]
          /\ Len(search_log'[p]) <= 1
      ]_vars

\* C14, witness: rag_answer ended on a rate-limit error after one search
\* and one create()
C14_Witness ==
    \E p \in Invocations :
        /\ Done(p) /\ mode[p] = "blocking" /\ branch[p] = "GenerationFailure"
        /\ Len(search_log[p]) = 1 /\ Len(calls[p]) = 1 /\ Len(backend_errors[p]) = 1
        /\ ErrorClass(backend_errors[p][1]) = "RateLimited"
        /\ responses[p] = <<>>

\* C15: a create() carries a temperature if and only if it is the first
\* create() of the invocation and the requested temperature is not 1.0, and
\* then it is the requested one; with a temperature of 1.0 no create() of
\* the invocation carries a temperature.
C15_TemperatureOnlyWhenNotNeutral ==
    \A p \in Invocations :
        \A i \in DOMAIN calls[p] :
            /\ ("temperature" \in DOMAIN calls[p][i])
                  <=> (i = 1 /\ temperature[p] # NEUTRAL_TEMPERATURE)
            /\ "temperature" \in DOMAIN calls[p][i] =>
                  calls[p][i]["temperature"] = temperature[p]

\* C15, witness: a streaming invocation at temperature 0.3 that made two
\* calls, and the second failed too
C15_Witness ==
    \E p \in Invocations :
        /\ mode[p] = "stream" /\ temperature[p] = 3
        /\ Len(calls[p]) = 2 /\ Len(backend_errors[p]) = 2
        /\ calls[p][1]["temperature"] = 3
        /\ "temperature" \notin DOMAIN calls[p][2]

\* the positions that may follow a position of an invocation
Successors(at) ==
    CASE at = "idle" -> {"search"}
      [] at = "search" -> {"budget", "final_yield", "done"}
      [] at = "budget" -> {"context_check"}
      [] at = "context_check" -> {"generate", "final_yield", "done"}
      [] at = "generate" -> {"streaming", "gateway_diagnostic", "done"}
      [] at = "streaming" -> {"gateway_diagnostic", "done"}
      [] at = "gateway_diagnostic" -> {"done"}
      [] at = "final_yield" -> {"done"}
      [] OTHER -> {}

\* the invocation is in, or has been through, the generation gateway
InGeneration(p) ==
    pc[p] \in {"generate", "streaming", "gateway_diagnostic"} \/ calls[p] # <<>>

\* what holds at each position: one search, finished before the budgeting,
\* and a generation only over documents and fragments
StagesInOrder(p) ==
    /\ pc[p] \in {"idle", "search"} =>
          search_log[p] = <<>> /\ idx[p] = 0 /\ calls[p] = <<>>
    /\ pc[p] \notin {"idle", "search"} => Len(search_log[p]) = 1
    /\ pc[p] \in {"budget", "context_check"} =>
          search_log[p] = <<"return">> /\ search_results[p] # <<>> /\ calls[p] = <<>>
    /\ InGeneration(p) =>
          /\ search_log[p] = <<"return">> /\ search_results[p] # <<>>
          /\ idx[p] >= 1 /\ context_chunks[p] # <<>>
    /\ branch[p] \in {"SearchFailure", "NoResults", "NoUsableContext"} => calls[p] = <<>>

\* C16: an invocation goes search, then no results or budgeting, then no
\* usable context or generation, then done, never back: one search, ended
\* before the budgeting starts; the generation gateway entered at most
\* once, and only after a search that returned documents and a budgeting
\* that produced a fragment.
C16_SequentialStages ==
    [][\A p \in Invocations :
          /\ pc'[p] = pc[p] \/ pc'[p] \in Successors(pc[p])
          /\ StagesInOrder(p)'
          /\ (pc[p] # "generate") => Len(calls'[p]) = Len(calls[p])
      ]_vars

\* C16, witness: rag_answer went through the search, a budgeting over
\* several documents and the generation, and returned
C16_Witness ==
    \E p \in Invocations :
        /\ Done(p) /\ mode[p] = "blocking" /\ branch[p] = "Generated"
        /\ Len(search_log[p]) = 1 /\ idx[p] >= 2 /\ context_chunks[p] # <<>>
        /\ Len(calls[p]) = 1 /\ Len(responses[p]) = 1

\* the wrapped error of a failed search
WrappedSearchError(fault) == Cat(Lit(<<"Error al buscar en Azure AI Search: ">>), fault)

\* C17: search_documents returns one document per hit of the index, in the
\* index's order, with content "" for a hit without content, source
\* "Unknown" for a hit without name, path "" for one without path and score
\* 0.0 for one without score; or, when the index fails, even after it
\* delivered hits, it raises one error that wraps the index's message and
\* returns no document at all.
C17_SearchAllOrNothing ==
    \A p \in Invocations :
        search_log[p] # <<>> =>
            LET o == index_log[p][1]
                docs == search_results[p]
            IN IF o.fault = <<>>
               THEN /\ search_log[p] = <<"return">>
                    /\ Len(docs) = Len(o.hits)
                    /\ \A i \in DOMAIN docs :
                          LET hit == o.hits[i] IN
                          /\ DOMAIN docs[i] = {"content", "source", "path", "score"}
                          /\ docs[i]["content"] =
                                IF "content" \in DOMAIN hit THEN hit["content"] ELSE <<>>
                          /\ docs[i]["source"] =
                                IF "metadata_storage_name" \in DOMAIN hit
                                THEN hit["metadata_storage_name"] ELSE "Unknown"
                          /\ docs[i]["path"] =
                                IF "metadata_storage_path" \in DOMAIN hit
                                THEN hit["metadata_storage_path"] ELSE ""
                          /\ docs[i]["score"] =
                                IF "@search.score" \in DOMAIN hit
                                THEN hit["@search.score"] ELSE 0
               ELSE /\ search_log[p] = <<"raise">>
                    /\ docs = <<>> /\ context_chunks[p] = <<>>
                    /\ branch[p] = "SearchFailure"
                    /\ Infix(WrappedSearchError(o.fault[1]),
                             IF mode[p] = "blocking" THEN answer[p] ELSE LastChunk(p))

\* C17, witness: the index failed after delivering two hits, and the
\* caller of rag_answer was given the wrapped error and no document
C17_Witness ==
    \E p \in Invocations :
        /\ mode[p] = "blocking" /\ search_log[p] = <<"raise">>
        /\ Len(index_log[p][1].hits) = 2 /\ index_log[p][1].fault # <<>>
        /\ search_results[p] = <<>> /\ sources[p] = <<>>

\* everything invocation q holds: its arguments, its local variables, what
\* the backends did for it and what its caller received
Locals(q) ==
    <<pc[q], mode[q], user_question[q], temperature[q], search_log[q], index_log[q],
      search_results[q], idx[q], context_chunks[q], total_chars[q], calls[q],
      backend_errors[q], responses[q], pulled[q], backend_text[q], yielded[q],
      full_answer[q], answer[q], sources[q], outcome[q], branch[q]>>

RECURSIVE BudgetAll(_, _, _, _)
\* the fragments the budgeting loop gives for a result list, run in one go
BudgetAll(results, i, chunks, total) ==
    IF i > Len(results) THEN chunks
    ELSE LET b == BudgetBody(results[i], chunks, total)
         IN IF b.stop THEN b.context_chunks
            ELSE BudgetAll(results, i + 1, b.context_chunks, b.total_chars)

\* what the generation backend did for a blocking invocation, call by call
OwnCreateOutcomes(p) ==
    [i \in DOMAIN backend_errors[p] |-> [ok |-> FALSE, error |-> backend_errors[p][i]]]
    \o [i \in DOMAIN responses[p] |-> [ok |-> TRUE, response |-> responses[p][i]]]

\* invocation p stands where a run on its own, with the same arguments and
\* the same behaviour of the backends, would stand
ResultAsAlone(p) ==
    search_log[p] # <<>> =>
       LET r == SearchDocuments(index_log[p][1]) IN
       IF r.kind = "raise"
       THEN /\ calls[p] = <<>> /\ sources[p] = <<>>
            /\ IF mode[p] = "blocking"
               THEN answer[p] = RagAnswerExcept(r.error).answer
               ELSE yielded[p] = <<RagAnswerStreamExcept(r.error).chunk>>
       ELSE IF r.value = <<>>
       THEN /\ calls[p] = <<>> /\ sources[p] = <<>>
            /\ IF mode[p] = "blocking"
               THEN answer[p] = NoResultsAnswer
               ELSE yielded[p] = <<NoResultsChunk>>
       ELSE LET chunks == BudgetAll(r.value, 1, <<>>, 0) IN
            /\ search_results[p] = r.value
            /\ pc[p] # "budget" => context_chunks[p] = chunks
            /\ (chunks = <<>> /\ pc[p] \in {"final_yield", "done"}) =>
                  /\ calls[p] = <<>> /\ sources[p] = <<>>
                  /\ IF mode[p] = "blocking"
                     THEN answer[p] = NoContextAnswer(r.value)
                     ELSE yielded[p] = <<NoContextChunk(r.value)>>
            /\ \A i \in DOMAIN calls[p] :
                  calls[p][i]["messages"]
                     = BuildMessages(SYSTEM_PROMPT, user_question[p], chunks)
            /\ (chunks # <<>> /\ Done(p)) =>
                  IF mode[p] = "blocking"
                  THEN LET outs == OwnCreateOutcomes(p)
                           g == GenerateResponse(SYSTEM_PROMPT, user_question[p], chunks,
                                                 temperature[p], outs[1], outs[Len(outs)])
                       IN /\ calls[p] = g.calls
                          /\ IF g.kind = "return"
                             THEN answer[p] = g.value /\ sources[p] = BuildSources(r.value)
                             ELSE answer[p] = RagAnswerExcept(g.value).answer
                                  /\ sources[p] = <<>>
                  ELSE /\ sources[p] = BuildSourcesStream(r.value)
                       /\ Join(yielded[p]) =
                             IF branch[p] = "Generated" THEN backend_text[p]
                             ELSE Cat(backend_text[p],
                                      ClassifyErrorStream(LastError(backend_errors[p])))

\* C18: with two invocations on one pipeline object, their steps
\* interleaved in every way, no step changes what the other invocation
\* holds, the pipeline's system prompt is never changed, and each
\* invocation sends the prompts and gets the answer and sources it would
\* get run on its own with the same behaviour of the backends.
C18_InterleavingIndependent ==
    /\ [](\A p \in Invocations : ResultAsAlone(p))
    /\ [][ /\ system_prompt' = system_prompt
           /\ \E p \in Invocations : \A q \in Invocations \ {p} : Locals(q)' = Locals(q)
         ]_vars

\* C18, witness: two invocations under way at once, rag_answer_stream
\* between two chunks of its stream and rag_answer in the middle of its
\* budgeting loop over other documents
C18_Witness ==
    /\ Invocations = {1, 2}
    /\ mode[1] = "stream" /\ pc[1] = "streaming" /\ Len(yielded[1]) = 1
    /\ mode[2] = "blocking" /\ pc[2] = "budget" /\ idx[2] = 1
    /\ search_results[1] # search_results[2]

\* the text the backend stream delivered in this step
TextPulled(p) == DropChars(backend_text'[p], StrLen(backend_text[p]))

\* C19: while the generation streams, rag_answer_stream hands each chunk
\* of generate_response_stream to its consumer as it is, in the same step
\* in which the gateway produced it and before the next item is taken from
\* the backend: one item at most per step, its text appended as one chunk
\* of its own, nothing added, dropped or merged, and the text accumulated
\* in full_answer is the concatenation of the chunks.
C19_VerbatimRelay ==
    [][\A p \in Invocations :
          (mode[p] = "stream" /\ pc[p] \in {"generate", "streaming"}) =>
             /\ pulled'[p] \in {pulled[p], pulled[p] + 1}
             /\ pulled'[p] = pulled[p] + 1 =>
                   /\ yielded'[p] = IF TextPulled(p) = <<>> THEN yielded[p]
                                    ELSE Append(yielded[p], TextPulled(p))
                   /\ full_answer'[p] = Cat(full_answer[p], TextPulled(p))
             /\ (pulled'[p] = pulled[p] /\ pc'[p] # "gateway_diagnostic") =>
                   yielded'[p] = yielded[p]
             /\ pc'[p] = "gateway_diagnostic" =>
                   /\ Len(yielded'[p]) = Len(yielded[p]) + 1
                   /\ SubSeq(yielded'[p], 1, Len(yielded[p])) = yielded[p]
             /\ Len(yielded'[p]) <= pulled'[p] + 1
             /\ Join(yielded'[p]) = full_answer'[p]
      ]_vars

\* C19, witness: the backend sent the same text twice and the consumer
\* holds it as two chunks
C19_Witness ==
    \E p \in Invocations :
        /\ pc[p] = "streaming" /\ pulled[p] = 2
        /\ yielded[p] = <<Lit(<<"a">>), Lit(<<"a">>)>>
        /\ backend_text[p] = Rep("a", 2)

\* the last create() of rag_answer succeeded with a completion without choices
NoChoices(p) ==
    /\ mode[p] = "blocking" /\ Done(p)
    /\ responses[p] # <<>>
    /\ responses[p][Len(responses[p])].choices = <<>>

\* C20: in blocking mode, when create() succeeds with a completion that
\* has no choices, generate_response returns the fixed fallback text and
\* does not raise, and rag_answer returns that text as its answer, with one
\* source for each document the search returned.
C20_NoChoicesFallback ==
    \A p \in Invocations :
        NoChoices(p) =>
            /\ outcome[p] = "returned" /\ branch[p] = "Generated"
            /\ answer[p] = Lit(<<"No se pudo generar una respuesta.">>)
            /\ Len(sources[p]) = Len(search_results[p])
            /\ \A i \in DOMAIN search_results[p] :
                  /\ sources[p][i]["source"] = search_results[p][i]["source"]
                  /\ sources[p][i]["score"] = search_results[p][i]["score"]
                  /\ sources[p][i]["path"] = search_results[p][i]["path"]

\* C20, witness: rag_answer over three documents, the completion without
\* choices coming from the retry without temperature
C20_Witness ==
    \E p \in Invocations :
        /\ NoChoices(p)
        /\ Len(search_results[p]) = 3 /\ Len(sources[p]) = 3
        /\ Len(calls[p]) = 2

\* C21: the budgeting is a function of the document list alone: two
\* invocations given the same list, whatever their mode, their temperature
\* and the steps of the other in between, end the loop with the same
\* fragment list, the one the loop gives run in one go; and the loop
\* leaves the document list as it found it.
C21_BudgetDeterministic ==
    /\ [](\A p \in Invocations :
            /\ BudgetDone(p) =>
                  context_chunks[p] = BudgetAll(search_results[p], 1, <<>>, 0)
            /\ \A q \in Invocations :
                  (BudgetDone(p) /\ BudgetDone(q) /\ search_results[p] = search_results[q])
                     => context_chunks[p] = context_chunks[q])
    /\ [][\A p \in Invocations :
            search_results[p] # <<>> => search_results'[p] = search_results[p]]_vars

\* C21, witness: rag_answer and rag_answer_stream, at different
\* temperatures, have both budgeted the same five documents and hold the
\* same two fragments
C21_Witness ==
    /\ Invocations = {1, 2}
    /\ BudgetDone(1) /\ BudgetDone(2)
    /\ mode[1] # mode[2] /\ temperature[1] # temperature[2]
    /\ Len(search_results[1]) = 5 /\ search_results[1] = search_results[2]
    /\ Len(context_chunks[1]) = 2 /\ context_chunks[1] = context_chunks[2]

\* the branch an invocation has taken after its search returned
Path(p) ==
    IF branch[p] \in {"NoResults", "NoUsableContext"} THEN branch[p]
    ELSE IF InGeneration(p) \/ branch[p] \in {"Generated", "GenerationFailure"}
    THEN "Generating"
    ELSE "undecided"

\* rag_answer (p) and rag_answer_stream (q) were given the same result list
SameResults(p, q) ==
    /\ mode[p] = "blocking" /\ mode[q] = "stream"
    /\ search_log[p] = <<"return">> /\ search_log[q] = <<"return">>
    /\ SearchDocuments(index_log[p][1]).value = SearchDocuments(index_log[q][1]).value

\* a dict without one of its keys
Without(d, key) == [k \in DOMAIN d \ {key} |-> d[k]]

\* C22: given the same search result list, rag_answer and
\* rag_answer_stream take the same branch, no results, no usable context or
\* generation; in the generation they hold the same fragment list, and
\* the gateway sends the same messages, built from the same system prompt
\* and question; at the same temperature the two first create() differ
\* only by the "stream" parameter.
C22_SameBranchSamePrompt ==
    \A p, q \in Invocations :
        SameResults(p, q) =>
            /\ (Path(p) # "undecided" /\ Path(q) # "undecided") => Path(p) = Path(q)
            /\ (Path(p) = "Generating" /\ Path(q) = "Generating") =>
                  context_chunks[p] = context_chunks[q]
            /\ (calls[p] # <<>> /\ calls[q] # <<>>) =>
                  /\ user_question[p] = user_question[q] =>
                        calls[p][1]["messages"] = calls[q][1]["messages"]
                  /\ calls[p][1]["messages"][1].content = system_prompt
                  /\ calls[q][1]["messages"][1].content = system_prompt
                  /\ (user_question[p] = user_question[q] /\ temperature[p] = temperature[q]) =>
                        calls[p][1] = Without(calls[q][1], "stream")

\* C22, witness: rag_answer and rag_answer_stream, both at temperature
\* 0.3, have each made their create() over the same two documents
C22_Witness ==
    \E p, q \in Invocations :
        /\ SameResults(p, q) /\ Len(search_results[p]) = 2
        /\ temperature[p] = 3 /\ temperature[q] = 3
        /\ calls[p] # <<>> /\ calls[q] # <<>>
        /\ calls[p][1]["messages"] = calls[q][1]["messages"]

\* C23: with MAX_CHARS_PER_CHUNK = 4000, MAX_TOTAL_CONTEXT = 12000 and
\* the marker of 24 characters, every fragment has at most 4024 characters,
\* total_chars is the sum of the lengths of the accepted fragments, and
\* the branch that cuts a first fragment down to MAX_TOTAL_CONTEXT is never
\* taken: the first fragment is the truncation of its document, untouched.
C23_HardTruncationUnreachable ==
    \A p \in Invocations :
        /\ \A i \in DOMAIN context_chunks[p] :
              StrLen(context_chunks[p][i]) <= MAX_CHARS_PER_CHUNK + StrLen(TRUNC_MARKER)
        /\ StrLen(TRUNC_MARKER) = 24
        /\ total_chars[p] = SumLen(context_chunks[p])
        /\ context_chunks[p] # <<>> =>
              LET content == NonEmptyDocs(search_results[p])[1]["content"]
                  half == MAX_CHARS_PER_CHUNK \div 2
              IN context_chunks[p][1] =
                    IF StrLen(content) > MAX_CHARS_PER_CHUNK
                    THEN Cat(Prefix(content, half), Cat(TRUNC_MARKER, Suffix(content, half)))
                    ELSE content

\* C23, witness: the first document with text has 20,000 characters, more
\* than MAX_TOTAL_CONTEXT, and went in as a fragment of 4024; a second
\* fragment of 4024 followed
C23_Witness ==
    \E p \in Invocations :
        /\ BudgetDone(p)
        /\ Len(context_chunks[p]) = 2
        /\ NonEmptyDocs(search_results[p])[1]["content"] = ContentHuge
        /\ StrLen(context_chunks[p][1]) = 4024
        /\ total_chars[p] = 8048

\* the history alternates user, assistant, starting with user
Alternates(history) ==
    \A i \in DOMAIN history :
        history[i].role = IF i % 2 = 1 THEN "user" ELSE "assistant"

\* the message is the one of the except clause of process_question
IsErrorMessage(m) ==
    /\ "sources" \notin DOMAIN m
    /\ \E e \in UIFaults : m = ErrorMessage(e)

\* C24: every call of process_question appends exactly one user message,
\* then exactly one assistant message, whether the stream completes, the
\* search for the sources fails, or an exception is raised in the try; no
\* other step adds a message, and the clear button empties the history. So
\* between calls the history is empty or alternates user, assistant, from a
\* user message to an assistant message, and during a call exactly the
\* user message of the call is pending. The assistant message of a call
\* that reaches the normal append was recorded after the stream was
\* exhausted and its content is the concatenation, in order, of all the
\* chunks the generator yielded; otherwise it is the error message.
C24_OneUserOneAssistantPerCall ==
    /\ [](/\ Alternates(messages)
          /\ (ui_pc = "ready" => Len(messages) % 2 = 0)
          /\ (ui_pc = "consuming" => Len(messages) % 2 = 1))
    /\ [][/\ ((ui_pc = "ready" /\ ui_pc' = "consuming") =>
                messages' = Append(messages, UserMessage(user_question'[1])))
           /\ ((ui_pc = "consuming" /\ ui_pc' = "ready") =>
                /\ Len(messages') = Len(messages) + 1
                /\ SubSeq(messages', 1, Len(messages)) = messages
                /\ LET m == messages'[Len(messages')]
                   IN /\ m.role = "assistant"
                      /\ \/ IsErrorMessage(m)
                         \/ /\ "sources" \in DOMAIN m
                            /\ pc[1] = "done"
                            /\ m.content = Join(yielded[1]))
           /\ (ui_pc' = ui_pc =>
                \/ messages' = messages
                \/ ui_pc = "ready" /\ messages' = <<>>)]_vars

\* C24, witness: two calls have ended; the first recorded a streamed answer
\* of more than one chunk (the text "a", then the diagnostic of a fault of the
\* stream) with its sources, the second was cut by an exception and recorded
\* the error message
C24_Witness ==
    /\ ui_pc = "ready"
    /\ Len(messages) = 4
    /\ "sources" \in DOMAIN messages[2]
    /\ messages[2].sources # <<>>
    /\ StrLen(messages[2].content) > 1
    /\ Prefix(messages[2].content, 1) = Lit(<<"a">>)
    /\ IsErrorMessage(messages[4])
====
